---- MODULE Spec2Model ----
(***************************************************************************)
(* A model of llm-steg: the LSB codec (src/src/algorithms/lsb.ts) and the  *)
(* StegEngine orchestrator (src/unnamed/part_002, src/core/steg-engine.ts), *)
(* the transport adapters (src/unnamed/part_004, BaseAdapter, and          *)
(* src/src/adapters/memory-adapter.ts) and the StegTransport wrapper       *)
(* (src/src/core/steg-transport.ts).                                       *)
(*                                                                         *)
(* Buffers are Node Buffers: mutable byte arrays with identity.  They live *)
(* in `heap`, a function from buffer ids to byte sequences; a Buffer value *)
(* held by the program is a buffer id.  Byte index i of the source is      *)
(* element i + 1 of the sequence.                                          *)
(***************************************************************************)
EXTENDS Integers, Sequences, FiniteSets, TLC

VARIABLES
    heap,            \* buffer id -> byte sequence (every live Buffer)
    last,            \* the last call made by the caller and what it returned
    config,          \* StegEngine.config
    algorithm,       \* StegEngine.algorithm
    coverMediaPool,  \* StegEngine.coverMediaPool
    coverIndex,      \* StegEngine.coverIndex
    listeners,       \* the listeners registered on the engine, per event
    transport,       \* the StegTransport wrapped around the engine, if any
    adapter,         \* the transport adapter (the inner transport), if any
    normalizer       \* the StreamNormalizer, if any

engineVars == <<config, algorithm, coverMediaPool, coverIndex, listeners>>
ioVars == <<transport, adapter, normalizer>>
vars == <<heap, last, config, algorithm, coverMediaPool, coverIndex, listeners,
          transport, adapter, normalizer>>

(***************************************************************************)
(* Bounds of the model                                                     *)
(***************************************************************************)
MaxCoverLen == 48      \* longest buffer handed to the codec directly
MaxPayloadLen == 2     \* longest payload handed to the codec directly
MaxPool == 2           \* most covers in the engine's pool
MaxListeners == 1      \* most listeners registered on the engine
MaxHandlers == 2       \* most data handlers registered on a transport
MaxLog == 2            \* most entries in a MemoryAdapter's sent or received log
MaxText == 2           \* most characters in a StreamNormalizer's buffer
MaxWraps == 2          \* most calls of enableLoopback on a MemoryAdapter

(***************************************************************************)
(* Program constants                                                       *)
(***************************************************************************)
HEADER_SIZE_BYTES == 4
HEADER_SIZE_BITS == HEADER_SIZE_BYTES * 8

Max(a, b) == IF a >= b THEN a ELSE b

(***************************************************************************)
(* JavaScript integer operators, on the values the code applies them to    *)
(***************************************************************************)
\* (x >> i) & 1 for a non-negative int32 x and 0 <= i <= 31 (bit 31 is the sign)
ShiftRightAnd1(x, i) == IF i >= 31 THEN 0 ELSE (x \div (2 ^ i)) % 2

\* 1 << i as an int32: 1 << 31 is -2147483648
ShiftLeft1(i) == IF i = 31 THEN (-2147483647) - 1 ELSE 2 ^ i

\* mutant: the byte is overwritten by the bit instead of keeping bits 1..7
SetLSB_clobber(b, bit) == bit

\* (b & 0xFE) | bit for a byte b and a bit
SetLSB(b, bit) == (b - (b % 2)) + bit

\* buf[i] & 1; an index outside the buffer reads undefined, and undefined & 1 is 0
ReadLSB(buf, i) == IF i >= 0 /\ i < Len(buf) THEN buf[i + 1] % 2 ELSE 0

(***************************************************************************)
(* LSBAlgorithm                                                            *)
(***************************************************************************)
\* an Error: its message, the message it wraps, the numbers the message names
NoError == [msg |-> "", cause |-> "", args |-> <<>>]
Err(m, a) == [msg |-> m, cause |-> "", args |-> a]
Wrap(m, e) == [msg |-> m, cause |-> e.msg, args |-> e.args]

\* encodeLengthHeader writes bit i of length into bit 0 of cover[i], i < 32
encodeLengthHeader(cover, length) ==
    [k \in 1..Len(cover) |->
        IF k - 1 < HEADER_SIZE_BITS
        THEN SetLSB(cover[k], ShiftRightAnd1(length, k - 1))
        ELSE cover[k]]

\* decodeLengthHeader: length |= (1 << i) for every i < 32 with stegData[i] & 1
RECURSIVE decodeLengthHeaderFrom(_, _)
decodeLengthHeaderFrom(stegData, i) ==
    IF i >= HEADER_SIZE_BITS THEN 0
    ELSE (IF ReadLSB(stegData, i) = 1 THEN ShiftLeft1(i) ELSE 0)
         + decodeLengthHeaderFrom(stegData, i + 1)

decodeLengthHeader(stegData) == decodeLengthHeaderFrom(stegData, 0)

\* mutant: the header is counted in bytes, not in cover bytes
requiredCoverSize_unscaledHeader(data) == Len(data) * 8 + HEADER_SIZE_BYTES

requiredCoverSize(data) == (Len(data) + HEADER_SIZE_BYTES) * 8

\* mutant: payload bits are written most-significant-bit first
encodePayloadBits_msbFirst(result, data) ==
    [k \in 1..Len(result) |->
        LET i == (k - 1) - HEADER_SIZE_BITS IN
        IF i >= 0 /\ i < Len(data) * 8
        THEN SetLSB(result[k], ShiftRightAnd1(data[(i \div 8) + 1], 7 - (i % 8)))
        ELSE result[k]]

\* the payload loop of encode: bit (i % 8) of data[floor(i / 8)] goes to
\* bit 0 of result[i + 32], for i < 8 * data.length
encodePayloadBits(result, data) ==
    [k \in 1..Len(result) |->
        LET i == (k - 1) - HEADER_SIZE_BITS IN
        IF i >= 0 /\ i < Len(data) * 8
        THEN SetLSB(result[k], ShiftRightAnd1(data[(i \div 8) + 1], i % 8))
        ELSE result[k]]

\* the bytes encode leaves in `result`, given the bytes of the cover
encodeBytes(data, cover) ==
    encodePayloadBits(encodeLengthHeader(cover, Len(data)), data)

\* mutant: decode starts reading the payload one cover byte late
decodeBytes_shifted(stegData, dataLength) ==
    [b \in 1..dataLength |->
        LET base == HEADER_SIZE_BITS + 8 * (b - 1) + 1 IN
          ReadLSB(stegData, base) + 2 * ReadLSB(stegData, base + 1)
        + 4 * ReadLSB(stegData, base + 2) + 8 * ReadLSB(stegData, base + 3)
        + 16 * ReadLSB(stegData, base + 4) + 32 * ReadLSB(stegData, base + 5)
        + 64 * ReadLSB(stegData, base + 6) + 128 * ReadLSB(stegData, base + 7)]

\* the payload loop of decode: result[floor(i / 8)] |= bit << (i % 8)
decodeBytes(stegData, dataLength) ==
    [b \in 1..dataLength |->
        LET base == HEADER_SIZE_BITS + 8 * (b - 1) IN
          ReadLSB(stegData, base) + 2 * ReadLSB(stegData, base + 1)
        + 4 * ReadLSB(stegData, base + 2) + 8 * ReadLSB(stegData, base + 3)
        + 16 * ReadLSB(stegData, base + 4) + 32 * ReadLSB(stegData, base + 5)
        + 64 * ReadLSB(stegData, base + 6) + 128 * ReadLSB(stegData, base + 7)]

\* mutant: the header's 32 cover bytes are not subtracted
maxPossibleLength_noHeader(stegData) == Len(stegData) \div 8

\* maxPossibleLength of decode is the real (stegData.length - 32) / 8; an
\* integer exceeds it exactly when it exceeds its floor
maxPossibleLength(stegData) == (Len(stegData) - HEADER_SIZE_BITS) \div 8

\* LSBAlgorithm.decode on the bytes of stegData.  `read` is the number of
\* leading byte indices the call reads (it reads indices 0 .. read - 1).
LSBAlgorithm_decode(stegData) ==
    IF Len(stegData) < HEADER_SIZE_BITS
    THEN [threw |-> TRUE, error |-> Err("Data too small", <<>>),
          data |-> <<>>, read |-> 0]
    ELSE LET dataLength == decodeLengthHeader(stegData) IN
         IF dataLength <= 0
         THEN [threw |-> TRUE, error |-> Err("Invalid data length: zero or negative", <<>>),
               data |-> <<>>, read |-> HEADER_SIZE_BITS]
         ELSE IF dataLength > maxPossibleLength(stegData)
         THEN [threw |-> TRUE,
               error |-> Err("Invalid data length: exceeds maximum",
                             <<dataLength, (Len(stegData) - HEADER_SIZE_BITS) \div 8>>),
               data |-> <<>>, read |-> HEADER_SIZE_BITS]
         ELSE [threw |-> FALSE, error |-> NoError,
               data |-> decodeBytes(stegData, dataLength),
               read |-> HEADER_SIZE_BITS + 8 * dataLength]

\* mutant: the result is not clamped at 0
calculateCapacity_unclamped(cover) ==
    (Len(cover) - HEADER_SIZE_BITS) \div 8

\* LSBAlgorithm.calculateCapacity
calculateCapacity(cover) ==
    Max(0, (Len(cover) - HEADER_SIZE_BITS) \div 8)

\* LSBAlgorithm.validateCover
validateCover(cover) == Len(cover) >= (HEADER_SIZE_BYTES + 1) * 8

(***************************************************************************)
(* Buffers                                                                 *)
(***************************************************************************)
NoBuffer == 0

\* the ids of the buffers the caller creates and keeps
CallerBufs == {1, 2}

\* the heap once the buffers returned by earlier calls are garbage
Owned(h) == [id \in (DOMAIN h \cap CallerBufs) |-> h[id]]

\* a buffer id not in use
FreshId(h) ==
    CHOOSE id \in 1..(Cardinality(CallerBufs \cup DOMAIN h) + 1) :
        id \notin (CallerBufs \cup DOMAIN h)

\* mutant: no copy is made, the source buffer itself is returned
BufferFrom_alias(h, src) == src

\* Buffer.from(buffer): a new buffer with a copy of the bytes
BufferFrom(h, src) == FreshId(h)

\* LSBAlgorithm.encode(data, cover) on the heap h: data is the payload's
\* bytes, cover a buffer id.  `result` starts as a copy of the cover and the
\* header and payload bits are written into it.  Returns the heap after the
\* call and the id of the returned buffer.
LSBAlgorithm_encode(h, data, cover) ==
    IF Len(h[cover]) < requiredCoverSize(data)
    THEN [threw |-> TRUE,
          error |-> Err("Cover media too small", <<requiredCoverSize(data), Len(h[cover])>>),
          heap |-> h, result |-> NoBuffer]
    ELSE LET result == BufferFrom(h, cover) IN
         [threw |-> FALSE, error |-> NoError,
          heap |-> (result :> encodeBytes(data, h[cover])) @@ h,
          result |-> result]

(***************************************************************************)
(* EventEmitter (the engine extends it): listeners of an event are called  *)
(* in registration order; an exception raised by a listener propagates out *)
(* of emit, past the listeners not yet called; emitting 'error' with no    *)
(* listener registered raises.  A listener is "ok" or raises.             *)
(***************************************************************************)
Events == {"encode", "decode", "error", "configUpdated"}
NoListeners == [ev \in Events |-> <<>>]

\* the listeners that raise: "throw" raises an exception of its own,
\* "unhandled" is a listener that emits the 'error' it is given on an emitter
\* that has no 'error' listener, and so raises that emitter's "Unhandled
\* error"
Raising == {"throw", "unhandled"}

\* the position of the first listener that raises, 0 when none does
FirstThrower(ls) ==
    IF \E i \in 1..Len(ls) : ls[i] \in Raising
    THEN CHOOSE i \in 1..Len(ls) :
             ls[i] \in Raising /\ \A j \in 1..(i - 1) : ls[j] \notin Raising
    ELSE 0

\* emit(ev, ...): whether it raised, and how many listeners were called
Emit(lst, ev) ==
    IF ev = "error" /\ lst[ev] = <<>>
    THEN [threw |-> TRUE, error |-> Err("Unhandled error", <<>>), called |-> 0]
    ELSE IF FirstThrower(lst[ev]) # 0
    THEN [threw |-> TRUE,
          error |-> IF lst[ev][FirstThrower(lst[ev])] = "unhandled"
                    THEN Err("Unhandled error", <<>>)
                    ELSE Err("listener raised", <<>>),
          called |-> FirstThrower(lst[ev])]
    ELSE [threw |-> FALSE, error |-> NoError, called |-> Len(lst[ev])]

(***************************************************************************)
(* StegEngine                                                              *)
(***************************************************************************)
\* this.algorithm: null, or an LSBAlgorithm with its seed field
Null == [name |-> "null", seed |-> "null"]
NewLSBAlgorithm == [name |-> "lsb", seed |-> "null"]

\* the value generateRandomSeed returns: some non-empty string
RandomSeed == "random"

\* the value undefined where the field's type is a string: a field that is
\* present in an object and holds undefined
UndefinedValue == "undefined"

\* v === undefined, for a value of any type
IsUndefined(v) == ToString(v) = ToString(UndefinedValue)

\* partial[key] ?? default
OrDefault(partial, key, default) ==
    IF key \in DOMAIN partial /\ ~IsUndefined(partial[key])
    THEN partial[key] ELSE default

\* partial[key] ?? default for a string field, which may hold undefined
StringOrDefault(partial, key, default) ==
    IF key \in DOMAIN partial /\ partial[key] # UndefinedValue
    THEN partial[key] ELSE default

\* a string (or undefined) used as a condition
Truthy(s) == s # "" /\ s # UndefinedValue

\* the config the constructor builds (config.coverMedia is read only by
\* normalizeCoverMedia, in the call that assigned it, and is passed along)
ConstructorConfig(cfg) ==
    [enabled |-> OrDefault(cfg, "enabled", TRUE),
     algorithm |-> StringOrDefault(cfg, "algorithm", "lsb"),
     seed |-> StringOrDefault(cfg, "seed", RandomSeed),
     onError |-> StringOrDefault(cfg, "onError", "passthrough"),
     debug |-> OrDefault(cfg, "debug", FALSE)]

\* Object.assign(this.config, config)
ObjectAssign(cfg, partial) ==
    [k \in DOMAIN cfg |-> IF k \in DOMAIN partial THEN partial[k] ELSE cfg[k]]

\* what a caller passes as cover media: a Buffer, a CoverMedia object (with
\* or without capacity), or something that is neither
Undefined == -1000
BufferMedia(b) == [kind |-> "buffer", data |-> b, type |-> "binary", capacity |-> Undefined]
ObjectMedia(b, t, c) == [kind |-> "object", data |-> b, type |-> t, capacity |-> c]
InvalidMedia == [kind |-> "invalid", data |-> NoBuffer, type |-> "", capacity |-> Undefined]

\* the capacity normalizeSingleCover computes for a buffer
computedCapacity(alg, bytes) ==
    IF alg # Null THEN calculateCapacity(bytes) ELSE (Len(bytes) - 4) \div 8

\* normalizeSingleCover: the pool entries (none or one) the media becomes
normalizeSingleCover(alg, h, media) ==
    IF media.kind = "buffer"
    THEN <<[data |-> media.data, type |-> "binary",
            capacity |-> computedCapacity(alg, h[media.data])]>>
    ELSE IF media.kind = "object"
    THEN <<[data |-> media.data, type |-> media.type,
            capacity |-> IF media.capacity # Undefined THEN media.capacity
                         ELSE computedCapacity(alg, h[media.data])]>>
    ELSE <<>>

\* mutant: the loop stops after the first entry of the list
normalizeCoverMedia_firstOnly(alg, h, list) ==
    IF list = <<>> THEN <<>> ELSE normalizeSingleCover(alg, h, Head(list))

\* normalizeCoverMedia: the pool rebuilt from the list, in the list's order
RECURSIVE normalizeCoverMedia(_, _, _)
normalizeCoverMedia(alg, h, list) ==
    IF list = <<>> THEN <<>>
    ELSE normalizeSingleCover(alg, h, Head(list))
         \o normalizeCoverMedia(alg, h, Tail(list))

\* mutant: the cursor is left where it was
getNextCover_static(pool, idx) ==
    [cover |-> IF idx < Len(pool) THEN idx + 1 ELSE 0, coverIndex |-> idx]

\* getNextCover: the pool position read (1-based; 0 when null or undefined is
\* returned) and the coverIndex it leaves
getNextCover(pool, idx) ==
    IF Len(pool) = 0
    THEN [cover |-> 0, coverIndex |-> idx]
    ELSE [cover |-> IF idx < Len(pool) THEN idx + 1 ELSE 0,
          coverIndex |-> (idx + 1) % Len(pool)]

\* what an emit('error', {type, error: e}) that raised raises: the listener's
\* exception, or, with no listener registered here or on the emitter the
\* event is forwarded to, the emitter's "Unhandled error", which holds the
\* emitted object (and so e) as its context
Unhandled(lst, em, e) ==
    IF em.error.msg = "Unhandled error" THEN Wrap(em.error.msg, e) ELSE em.error

\* mutant: under 'throw' the error is thrown before anything is emitted
handleError_throwFirst(cfg, lst, message, originalData, evs) ==
    IF cfg.onError = "throw"
    THEN [threw |-> TRUE, error |-> message, success |-> FALSE, data |-> <<>>,
          result |-> NoBuffer, payloadSize |-> 0, coverSize |-> 0, events |-> evs]
    ELSE [threw |-> Emit(lst, "error").threw, error |-> message, success |-> FALSE,
          data |-> IF cfg.onError = "drop" THEN <<>> ELSE originalData,
          result |-> NoBuffer,
          payloadSize |-> IF cfg.onError = "drop" THEN 0 ELSE Len(originalData),
          coverSize |-> IF cfg.onError = "drop" THEN 0 ELSE Len(originalData),
          events |-> Append(evs, "error")]

\* handleError(message, originalData), after the events `evs` were emitted
handleError(cfg, lst, message, originalData, evs) ==
    LET em == Emit(lst, "error") IN
    IF em.threw
    THEN [threw |-> TRUE, error |-> Unhandled(lst, em, message),
          success |-> FALSE, data |-> <<>>,
          result |-> NoBuffer, payloadSize |-> 0, coverSize |-> 0,
          events |-> Append(evs, "error")]
    ELSE IF cfg.onError = "throw"
    THEN [threw |-> TRUE, error |-> message, success |-> FALSE, data |-> <<>>,
          result |-> NoBuffer, payloadSize |-> 0, coverSize |-> 0,
          events |-> Append(evs, "error")]
    ELSE IF cfg.onError = "drop"
    THEN [threw |-> FALSE, error |-> message, success |-> FALSE, data |-> <<>>,
          result |-> NoBuffer, payloadSize |-> 0, coverSize |-> 0,
          events |-> Append(evs, "error")]
    ELSE [threw |-> FALSE, error |-> message, success |-> FALSE, data |-> originalData,
          result |-> NoBuffer, payloadSize |-> Len(originalData),
          coverSize |-> Len(originalData), events |-> Append(evs, "error")]

\* the reduce of getPoolStats: the sum of c.capacity ?? 0 over the pool
RECURSIVE totalCapacity(_)
totalCapacity(pool) ==
    IF pool = <<>> THEN 0
    ELSE (IF Head(pool).capacity = Undefined THEN 0 ELSE Head(pool).capacity)
         + totalCapacity(Tail(pool))

\* mutant: the average is rounded up
getPoolStats_ceil(pool) ==
    [size |-> Len(pool),
     totalCapacity |-> totalCapacity(pool),
     averageCapacity |->
         IF Len(pool) > 0
         THEN (totalCapacity(pool) + Len(pool) - 1) \div Len(pool)
         ELSE 0]

\* getPoolStats(): the object returned
getPoolStats(pool) ==
    [size |-> Len(pool),
     totalCapacity |-> totalCapacity(pool),
     averageCapacity |->
         IF Len(pool) > 0 THEN totalCapacity(pool) \div Len(pool) ELSE 0]

\* mutant: the enabled flag is never consulted
Bypassed_never(cfg) == FALSE

\* if (!this.config.enabled), the first test of encode and of decode
Bypassed(cfg) == ~cfg.enabled

\* no 'encode' or 'decode' event was emitted
NoNotification == [success |-> FALSE, payloadSize |-> 0 - 1]

\* mutant: the event is built before the sizes are filled in
Notification_unsized(result) == [success |-> result.success, payloadSize |-> 0]

\* the fields of the object emitted with 'encode' and 'decode' that the
\* result has too: { ...result, durationMs }
Notification(result) ==
    [success |-> result.success, payloadSize |-> result.payloadSize]

\* mutant: the gate trusts the capacity stored with the pool entry
capacityOf_stored(h, cover) == cover.capacity

\* const capacity = this.algorithm.calculateCapacity(cover.data)
capacityOf(h, cover) == calculateCapacity(h[cover.data])

\* StegEngine.encode(data) in the engine state (cfg, alg, pool, idx, lst) on
\* the heap h.  result.data is the new buffer `result` when there is one, and
\* otherwise a buffer with the bytes `data`.  cover is the pool position
\* selected (0: none), codec whether algorithm.encode was invoked.
StegEngine_encode(cfg, alg, pool, idx, lst, h, data) ==
    IF Bypassed(cfg)
    THEN [threw |-> FALSE, error |-> NoError, success |-> TRUE, data |-> data,
          result |-> NoBuffer, payloadSize |-> Len(data), coverSize |-> Len(data),
          events |-> <<>>, cover |-> 0, codec |-> FALSE, coverIndex |-> idx, heap |-> h,
          notified |-> NoNotification, called |-> 0]
    ELSE IF alg = Null
    THEN handleError(cfg, lst, Err("No algorithm set", <<>>), data, <<>>)
         @@ [cover |-> 0, codec |-> FALSE, coverIndex |-> idx, heap |-> h,
             notified |-> NoNotification, called |-> 0]
    ELSE LET sel == getNextCover(pool, idx) IN
    IF sel.cover = 0
    THEN handleError(cfg, lst, Err("No cover media available", <<>>), data, <<>>)
         @@ [cover |-> 0, codec |-> FALSE, coverIndex |-> sel.coverIndex, heap |-> h,
             notified |-> NoNotification, called |-> 0]
    ELSE LET cover == pool[sel.cover]
             capacity == capacityOf(h, cover)
         IN
    IF Len(data) > capacity
    THEN handleError(cfg, lst, Err("Data too large", <<Len(data), capacity>>), data, <<>>)
         @@ [cover |-> sel.cover, codec |-> FALSE, coverIndex |-> sel.coverIndex, heap |-> h,
             notified |-> NoNotification, called |-> 0]
    ELSE LET enc == LSBAlgorithm_encode(h, data, cover.data) IN
    IF enc.threw
    THEN handleError(cfg, lst, Wrap("Encoding failed", enc.error), data, <<>>)
         @@ [cover |-> sel.cover, codec |-> TRUE, coverIndex |-> sel.coverIndex,
             heap |-> enc.heap, notified |-> NoNotification, called |-> 0]
    ELSE LET result == [success |-> TRUE, payloadSize |-> Len(data),
                        coverSize |-> Len(enc.heap[cover.data])]
             em == Emit(lst, "encode")
         IN
    IF em.threw
    THEN handleError(cfg, lst, Wrap("Encoding failed", em.error), data, <<"encode">>)
         @@ [cover |-> sel.cover, codec |-> TRUE, coverIndex |-> sel.coverIndex,
             heap |-> enc.heap, notified |-> Notification(result),
             called |-> em.called]
    ELSE [threw |-> FALSE, error |-> NoError, success |-> result.success,
          data |-> <<>>, result |-> enc.result,
          payloadSize |-> result.payloadSize, coverSize |-> result.coverSize,
          events |-> <<"encode">>, cover |-> sel.cover, codec |-> TRUE,
          coverIndex |-> sel.coverIndex, heap |-> enc.heap,
          notified |-> Notification(result), called |-> em.called]

\* the catch block of decode, after the events `evs` were emitted
decodeFailed(lst, e, evs) ==
    LET em == Emit(lst, "error") IN
    IF em.threw
    THEN [threw |-> TRUE, error |-> Unhandled(lst, em, e), success |-> FALSE,
          data |-> <<>>, payloadSize |-> 0, events |-> Append(evs, "error")]
    ELSE [threw |-> FALSE, error |-> Wrap("Decoding failed", e), success |-> FALSE,
          data |-> <<>>, payloadSize |-> 0, events |-> Append(evs, "error")]

\* StegEngine.decode(stegData) on the bytes of stegData
StegEngine_decode(cfg, alg, lst, stegData) ==
    IF Bypassed(cfg)
    THEN [threw |-> FALSE, error |-> NoError, success |-> TRUE, data |-> stegData,
          payloadSize |-> Len(stegData), events |-> <<>>,
          notified |-> NoNotification, called |-> 0]
    ELSE IF alg = Null
    THEN [threw |-> FALSE, error |-> Err("No algorithm set", <<>>), success |-> FALSE,
          data |-> <<>>, payloadSize |-> 0, events |-> <<>>,
          notified |-> NoNotification, called |-> 0]
    ELSE LET dec == LSBAlgorithm_decode(stegData) IN
    IF dec.threw
    THEN decodeFailed(lst, dec.error, <<>>)
         @@ [notified |-> NoNotification, called |-> 0]
    ELSE LET result == [success |-> TRUE, payloadSize |-> Len(dec.data)]
             em == Emit(lst, "decode")
         IN
    IF em.threw
    THEN decodeFailed(lst, em.error, <<"decode">>)
         @@ [notified |-> Notification(result), called |-> em.called]
    ELSE [threw |-> FALSE, error |-> NoError, success |-> result.success,
          data |-> dec.data, payloadSize |-> result.payloadSize,
          events |-> <<"decode">>,
          notified |-> Notification(result), called |-> em.called]

\* setAlgorithm(algorithm): the algorithm object once the seed is propagated
setAlgorithm(cfg, alg) ==
    IF Truthy(cfg.seed) THEN [alg EXCEPT !.seed = cfg.seed] ELSE alg

(***************************************************************************)
(* Transport adapters: BaseAdapter and MemoryAdapter.  No listener is      *)
(* registered on the adapter itself, so an 'error' it emits raises: the    *)
(* Error emitted itself, when the value emitted is an Error.               *)
(***************************************************************************)
NoAdapter ==
    [kind |-> "none", state |-> "disconnected", dataHandlers |-> <<>>,
     sentData |-> <<>>, received |-> 0, closeEmitted |-> 0]

\* new MemoryAdapter(): the constructor calls setState('connected')
NewMemoryAdapter ==
    [kind |-> "memory", state |-> "connected", dataHandlers |-> <<>>,
     sentData |-> <<>>, received |-> 0, closeEmitted |-> 0]

\* a BaseAdapter subclass whose constructor connects, as MemoryAdapter's, and
\* whose doSend and doClose may raise
NewFailingAdapter == [NewMemoryAdapter EXCEPT !.kind = "failing"]

\* mutant: only the error state stops a send
Gated_errorOnly(state) == state = "error"

\* if (this.state === 'error' || this.state === 'disconnected')
Gated(state) == state = "error" \/ state = "disconnected"

\* BaseAdapter.send(data, callback) for the bytes `data`; `raises`: doSend
\* raises.  callback: "error" (invoked with an error), "scheduled" (doSend
\* took it: MemoryAdapter invokes it from setImmediate), "none".
BaseAdapter_send(a, data, raises) ==
    IF Gated(a.state)
    THEN [adapter |-> a, threw |-> FALSE, callback |-> "error", doSend |-> FALSE,
          error |-> IF a.state = "error"
                    THEN Err("Cannot send: transport is error", <<>>)
                    ELSE Err("Cannot send: transport is disconnected", <<>>)]
    ELSE IF raises
    THEN [adapter |-> [a EXCEPT !.state = "error"], threw |-> TRUE,
          callback |-> "none", doSend |-> TRUE,
          error |-> Err("doSend raised", <<>>)]
    ELSE [adapter |-> [a EXCEPT !.sentData = Append(@, data)], threw |-> FALSE,
          callback |-> "scheduled", doSend |-> TRUE, error |-> NoError]

\* BaseAdapter.close(); `raises`: doClose raises
BaseAdapter_close(a, raises) ==
    IF a.state = "disconnected"
    THEN [adapter |-> a, threw |-> FALSE, error |-> NoError, doClose |-> FALSE]
    ELSE IF raises
    THEN [adapter |-> [a EXCEPT !.state = "error"], threw |-> TRUE,
          error |-> Err("doClose raised", <<>>), doClose |-> TRUE]
    ELSE [adapter |-> [a EXCEPT !.state = "disconnected", !.closeEmitted = @ + 1],
          threw |-> FALSE, error |-> NoError, doClose |-> TRUE]

\* the loop of emitData and of handleIncomingData over the data handlers,
\* each "ok" or "throw", with the listeners `lst` on the emitter: how many
\* handlers were invoked, how many 'error' events emitted, whether it raised
RECURSIVE callHandlers(_, _, _)
callHandlers(handlers, lst, acc) ==
    IF handlers = <<>> THEN acc
    ELSE IF Head(handlers) = "throw"
    THEN IF Emit(lst, "error").threw
         THEN [acc EXCEPT !.handled = @ + 1, !.errors = @ + 1, !.threw = TRUE,
                          !.error = Unhandled(lst, Emit(lst, "error"),
                                              Err("handler raised", <<>>))]
         ELSE callHandlers(Tail(handlers), lst,
                           [acc EXCEPT !.handled = @ + 1, !.errors = @ + 1])
    ELSE callHandlers(Tail(handlers), lst, [acc EXCEPT !.handled = @ + 1])

(***************************************************************************)
(* The logs of MemoryAdapter.  sentData and receivedData hold buffers of    *)
(* the heap, by id.                                                        *)
(***************************************************************************)
NoLogStats == [sentCount |-> 0, sentBytes |-> 0, receivedCount |-> 0, receivedBytes |-> 0]

\* new MemoryAdapter() with its two logs
NewLoggingAdapter == NewMemoryAdapter @@ [receivedData |-> <<>>]

\* the heap without the buffers that neither the caller nor a log holds
Kept(h, a) ==
    [id \in {i \in DOMAIN h :
                \/ i \in CallerBufs
                \/ \E k \in DOMAIN a.sentData : a.sentData[k] = i
                \/ \E k \in DOMAIN a.receivedData : a.receivedData[k] = i} |-> h[id]]

\* adapter.send(data) of a MemoryAdapter for the buffer `data` of the heap h:
\* the gate of BaseAdapter.send, then doSend pushes Buffer.from(data)
MemoryAdapter_send(h, a, data) ==
    LET copy == BufferFrom(h, data)
        s == BaseAdapter_send(a, copy, FALSE)
    IN [adapter |-> s.adapter, callback |-> s.callback, doSend |-> s.doSend,
        heap |-> IF s.doSend THEN (copy :> h[data]) @@ h ELSE h]

\* adapter.receive(data): pushes Buffer.from(data), then emitData(data)
MemoryAdapter_receive(h, a, data) ==
    LET copy == BufferFrom(h, data)
        d == callHandlers(a.dataHandlers, NoListeners,
                          [threw |-> FALSE, error |-> NoError, delivering |-> TRUE,
                           outputData |-> h[data], handled |-> 0, errors |-> 0])
    IN [adapter |-> [a EXCEPT !.receivedData = Append(@, copy)],
        heap |-> (copy :> h[data]) @@ h,
        threw |-> d.threw, error |-> d.error, handled |-> d.handled]

\* adapter.clear()
MemoryAdapter_clear(a) == [a EXCEPT !.sentData = <<>>, !.receivedData = <<>>]

\* log.reduce((sum, b) => sum + b.length, 0)
RECURSIVE reduceLength(_, _)
reduceLength(h, log) ==
    IF log = <<>> THEN 0 ELSE Len(h[Head(log)]) + reduceLength(h, Tail(log))

\* adapter.getStats()
MemoryAdapter_getStats(h, a) ==
    [sentCount |-> Len(a.sentData), sentBytes |-> reduceLength(h, a.sentData),
     receivedCount |-> Len(a.receivedData),
     receivedBytes |-> reduceLength(h, a.receivedData)]

\* adapter.enableLoopback(): empties sentData and wraps doSend; `loopback`
\* counts the wrappers, `pending` holds the receive calls passed to
\* setImmediate and not yet run, oldest first
MemoryAdapter_enableLoopback(a) ==
    [a EXCEPT !.sentData = <<>>, !.loopback = @ + 1]

\* the receive calls one send defers: one for each wrapper around doSend,
\* each for the buffer passed to send itself; `sentBytes` remembers the
\* bytes the buffer held at the send
RECURSIVE deferredReceives(_, _, _)
deferredReceives(n, data, bytes) ==
    IF n = 0 THEN <<>>
    ELSE <<[data |-> data, sentBytes |-> bytes]>> \o deferredReceives(n - 1, data, bytes)

\* adapter.send(data) of a MemoryAdapter on which enableLoopback was called
MemoryAdapter_loopbackSend(h, a, data) ==
    LET s == MemoryAdapter_send(h, a, data) IN
    [adapter |-> IF s.doSend
                 THEN [s.adapter EXCEPT !.pending =
                           @ \o deferredReceives(a.loopback, data, h[data])]
                 ELSE s.adapter,
     callback |-> s.callback, doSend |-> s.doSend, heap |-> s.heap]

(***************************************************************************)
(* StegTransport.  Its constructor registers on the engine one listener    *)
(* for each of 'encode', 'decode' and 'error' that emits the event on the  *)
(* transport, and on the inner transport one data handler that calls       *)
(* handleIncomingData.                                                     *)
(***************************************************************************)
TransportEvents == {"encode", "decode", "error", "close"}
NoTransportListeners == [ev \in TransportEvents |-> <<>>]

NoTransport ==
    [constructed |-> FALSE, closed |-> FALSE, dataHandlers |-> <<>>,
     listeners |-> NoTransportListeners, innerCloses |-> 0, closeEmitted |-> 0]

\* new StegTransport(adapter, engine)
NewStegTransport == [NoTransport EXCEPT !.constructed = TRUE]

\* the engine's listeners once the transport is constructed: each forwarder
\* raises what the transport's emit raises
Forwarders(tl) ==
    [ev \in Events |->
        IF ev = "configUpdated" THEN <<>>
        ELSE IF ev = "error" /\ tl[ev] = <<>> THEN <<"unhandled">>
        ELSE <<IF Emit(tl, ev).threw THEN "throw" ELSE "ok">>]

\* mutant: close does not look at the closed flag
AlreadyClosed_never(t) == FALSE

\* if (this.closed), the first test of send and of close
AlreadyClosed(t) == t.closed

\* StegTransport.send(data, callback) on the transport t over the adapter a,
\* r being what engine.encode(buffer) does when send calls it
StegTransport_send(t, a, cfg, idx, h, r) ==
    IF AlreadyClosed(t)
    THEN [threw |-> FALSE, error |-> Err("Transport is closed", <<>>),
          callback |-> "error", encoded |-> FALSE, innerSend |-> FALSE,
          adapter |-> a, coverIndex |-> idx, heap |-> h, events |-> <<>>]
    ELSE IF r.threw
    THEN [threw |-> TRUE, error |-> r.error, callback |-> "none",
          encoded |-> TRUE, innerSend |-> FALSE,
          adapter |-> a, coverIndex |-> r.coverIndex, heap |-> r.heap,
          events |-> r.events]
    ELSE IF ~r.success /\ cfg.onError = "drop"
    THEN [threw |-> FALSE, error |-> r.error, callback |-> "error",
          encoded |-> TRUE, innerSend |-> FALSE,
          adapter |-> a, coverIndex |-> r.coverIndex, heap |-> r.heap,
          events |-> r.events]
    ELSE LET s == BaseAdapter_send(a, IF r.result # NoBuffer THEN r.heap[r.result]
                                      ELSE r.data, FALSE)
         IN [threw |-> s.threw, error |-> s.error, callback |-> s.callback,
             encoded |-> TRUE, innerSend |-> TRUE,
             adapter |-> s.adapter, coverIndex |-> r.coverIndex, heap |-> r.heap,
             events |-> r.events]

\* StegTransport.close()
StegTransport_close(t, a) ==
    IF AlreadyClosed(t)
    THEN [transport |-> t, adapter |-> a, threw |-> FALSE, error |-> NoError]
    ELSE LET c == BaseAdapter_close(a, FALSE)
             em == Emit(t.listeners, "close")
         IN [transport |-> [t EXCEPT !.closed = TRUE, !.innerCloses = @ + 1,
                                     !.closeEmitted = @ + 1],
             adapter |-> c.adapter, threw |-> em.threw, error |-> em.error]

\* getMetadata().connectionState
StegTransport_connectionState(t, a) ==
    IF t.closed THEN "disconnected" ELSE a.state

\* handleIncomingData(data) for the bytes `buffer`, dec being what
\* engine.decode(buffer) does when it is called: whether the handlers were
\* reached, the bytes passed to them, and what the loop over them did
handleIncomingData(t, dec, buffer) ==
    IF dec.threw
    THEN [threw |-> TRUE, error |-> dec.error, delivering |-> FALSE,
          outputData |-> <<>>, handled |-> 0, errors |-> 0]
    ELSE callHandlers(t.dataHandlers, t.listeners,
                      [threw |-> FALSE, error |-> NoError, delivering |-> TRUE,
                       outputData |-> IF dec.success THEN dec.data ELSE buffer,
                       handled |-> 0, errors |-> 0])

(***************************************************************************)
(* StreamNormalizer.  Text is a sequence of characters.  A chunk fed is    *)
(* an object or not, and `text` is the string the provider's text paths    *)
(* find in it (empty when they find none).  `completeEmitted` counts the   *)
(* 'complete' events emitted since construction or the last reset.         *)
(***************************************************************************)
NormalizerEvents == {"chunk", "complete", "error"}

NoNormalizer ==
    [constructed |-> FALSE, buffer |-> <<>>, streamEnded |-> FALSE,
     listeners |-> [ev \in NormalizerEvents |-> <<>>], completeEmitted |-> 0]

\* new StreamNormalizer()
NewStreamNormalizer == [NoNormalizer EXCEPT !.constructed = TRUE]

\* normalize(chunk): the text of the normalized chunk, <<>> for null
normalize(chunk) ==
    IF ~chunk.object THEN <<>>
    ELSE IF chunk.text = <<>> THEN <<>>
    ELSE chunk.text

\* feed(chunk)
StreamNormalizer_feed(n, chunk) ==
    LET text == normalize(chunk) IN
    IF text = <<>>
    THEN [normalizer |-> n, threw |-> FALSE, events |-> <<>>]
    ELSE LET fed == [n EXCEPT !.buffer = @ \o text]
             em == Emit(n.listeners, "chunk")
         IN IF em.threw
            THEN [normalizer |-> fed, threw |-> Emit(n.listeners, "error").threw,
                  events |-> <<"chunk", "error">>]
            ELSE [normalizer |-> fed, threw |-> FALSE, events |-> <<"chunk">>]

\* mutant: complete does not look at streamEnded
StreamEnded_ignored(n) == FALSE

\* if (this.streamEnded) return
StreamEnded(n) == n.streamEnded

\* complete(); `text` is the string emitted with 'complete'
StreamNormalizer_complete(n) ==
    IF StreamEnded(n)
    THEN [normalizer |-> n, threw |-> FALSE, events |-> <<>>, text |-> <<>>]
    ELSE [normalizer |-> [n EXCEPT !.streamEnded = TRUE, !.completeEmitted = @ + 1],
          threw |-> Emit(n.listeners, "complete").threw,
          events |-> <<"complete">>, text |-> n.buffer]

\* JSON.parse of what follows 'data: ' in a line: "{a}" stands for the JSON
\* of a provider chunk with the text 'a', "42" for JSON that is no object;
\* "[DONE]" and "{oops" are no JSON
JSONParse(rest) ==
    IF rest = "{a}"
    THEN [threw |-> FALSE, value |-> [object |-> TRUE, text |-> <<"a">>]]
    ELSE IF rest = "42"
    THEN [threw |-> FALSE, value |-> [object |-> FALSE, text |-> <<>>]]
    ELSE [threw |-> TRUE, value |-> [object |-> FALSE, text |-> <<>>]]

\* feedSSE(line); line.prefixed: the line starts with 'data: ', line.rest:
\* what follows the prefix (the whole line when it has none)
StreamNormalizer_feedSSE(n, line) ==
    IF ~line.prefixed
    THEN [normalizer |-> n, threw |-> FALSE, events |-> <<>>, text |-> <<>>]
    ELSE IF line.rest = "[DONE]"
    THEN StreamNormalizer_complete(n)
    ELSE LET json == JSONParse(line.rest) IN
         IF json.threw
         THEN [normalizer |-> n, threw |-> FALSE, events |-> <<>>, text |-> <<>>]
         ELSE LET f == StreamNormalizer_feed(n, json.value) IN
              [normalizer |-> f.normalizer, threw |-> FALSE, events |-> f.events,
               text |-> <<>>]

\* reset()
StreamNormalizer_reset(n) ==
    [n EXCEPT !.buffer = <<>>, !.streamEnded = FALSE, !.completeEmitted = 0]

(***************************************************************************)
(* The caller's record of its last call                                    *)
(***************************************************************************)
NoCall ==
    [op |-> "none",          \* the operation called
     payload |-> <<>>,       \* encode: the bytes of the payload passed
     input |-> NoBuffer,     \* the buffer passed (cover of codec.encode, input of decode)
     before |-> <<>>,        \* the bytes of that buffer when the call was made
     ofEncode |-> FALSE,     \* decode: the input is what the previous encode returned
     threw |-> FALSE,        \* the call raised
     error |-> NoError,      \* the error raised or reported
     result |-> NoBuffer,    \* the new buffer returned, if the data returned is one
     data |-> <<>>,          \* the bytes of the data returned, if it is no new buffer
     read |-> 0,             \* codec decode: the call read byte indices 0 .. read - 1
     len |-> 0,              \* calculateCapacity: the length of the cover passed
     value |-> 0,            \* calculateCapacity: the number returned
     success |-> FALSE,      \* engine: result.success
     payloadSize |-> 0,      \* engine: result.payloadSize
     coverSize |-> 0,        \* engine encode: result.coverSize
     cover |-> 0,            \* engine encode: the pool position selected, 0 if none
     cursor |-> 0,           \* engine encode: coverIndex when the call was made
     codec |-> FALSE,        \* engine encode: algorithm.encode was invoked
     partial |-> <<>>,       \* updateConfig: the partial config passed
     notified |-> NoNotification,
                             \* engine: the object emitted with 'encode' or 'decode'
     called |-> 0,           \* engine: the listeners of the call's success event
                             \* ('encode', 'decode', 'configUpdated') invoked
     stats |-> [size |-> 0, totalCapacity |-> 0, averageCapacity |-> 0],
     logStats |-> NoLogStats,
     line |-> [prefixed |-> FALSE, rest |-> ""],
                             \* feedSSE: the line passed
     text |-> <<>>,          \* normalizer: the text emitted with 'complete'
                             \* MemoryAdapter: the object getStats returned
     callback |-> "none",    \* send: the callback was invoked with an "error",
                             \* or taken by doSend ("scheduled")
     doSend |-> FALSE,       \* send: the adapter's doSend was invoked
     state |-> "",           \* adapter: its state when the call was made;
                             \* getMetadata: the connectionState returned
     sent |-> 0,             \* transport: the length of the adapter's sent log
                             \* when the call was made
     delivering |-> FALSE,   \* receive: the transport's data handlers were reached
     handled |-> 0,          \* receive: the data handlers invoked
     errors |-> 0,           \* receive: the 'error' events of type 'handler' emitted
                             \* getPoolStats: the object returned
     events |-> <<>>]        \* engine: the events emitted, in order

\* the bytes of the data the last call returned
Returned == IF last.result \in DOMAIN heap THEN heap[last.result] ELSE last.data

(***************************************************************************)
(* Direct use of the codec: one cover buffer (id 1) with arbitrary bytes,  *)
(* encode / decode / calculateCapacity called on it with payloads drawn    *)
(* from a small set.                                                       *)
(***************************************************************************)
CoverBuf == 1

\* Buffer.alloc(n): n zero bytes
BufferAlloc(n) == [k \in 1..n |-> 0]

\* the 100-byte payload and the cover lengths of tests/lsb-algorithm.test.ts
TestPayloadLen == 100
TestCoverLen == 100
LargeCoverLen == 10000

PayloadBytes == {0, 18, 255}
CodecPayloads ==
    UNION {[1..n -> PayloadBytes] : n \in 0..MaxPayloadLen}
    \cup {BufferAlloc(TestPayloadLen)}

\* fill patterns <<even byte, odd byte>> of the buffers tried
CoverFills == {<<255, 255>>, <<0, 0>>, <<170, 85>>}

\* the length headers tried, each as the set of bit positions that are 1
HeaderChoices ==
    {{}, {0}, {1}, {0, 1}, {2}, {0, 1, 2}, {30}, {31}, 0..30, 0..31,
     {1, 3, 5, 7, 9, 11, 13, 15, 17, 19, 21, 23, 25, 27, 29, 31}}

\* a buffer of n bytes filled with the pattern
Filled(n, fill) == [k \in 1..n |-> fill[((k - 1) % 2) + 1]]

\* a buffer of n bytes, alternately 0xAA and 0x55 above bit 0, whose first 32
\* bytes carry the header bits in bit 0
Stamped(n, hdr) ==
    [k \in 1..n |->
        LET b == IF (k - 1) % 2 = 0 THEN 170 ELSE 85 IN
        IF k - 1 < 32 THEN (b - (b % 2)) + (IF (k - 1) \in hdr THEN 1 ELSE 0) ELSE b]

CodecCovers ==
    {Filled(n, fill) : n \in 0..MaxCoverLen, fill \in CoverFills}
    \cup {Stamped(n, hdr) : n \in 0..MaxCoverLen, hdr \in HeaderChoices}
    \cup {BufferAlloc(TestCoverLen)}

InitCodec ==
    /\ \E c \in CodecCovers : heap = (CoverBuf :> c)
    /\ last = NoCall
    /\ config = ConstructorConfig(<<>>)
    /\ algorithm = Null
    /\ coverMediaPool = <<>>
    /\ coverIndex = 0
    /\ listeners = NoListeners
    /\ transport = NoTransport
    /\ adapter = NoAdapter
    /\ normalizer = NoNormalizer

\* lsb.encode(p, cover); a buffer returned by an earlier call is garbage by now
CodecEncode ==
    \E p \in CodecPayloads :
        \E r \in {LSBAlgorithm_encode(Owned(heap), p, CoverBuf)} :
            /\ heap' = r.heap
            /\ UNCHANGED <<engineVars, ioVars>>
            /\ last' = [NoCall EXCEPT !.op = "codec.encode", !.payload = p,
                                      !.input = CoverBuf, !.before = heap[CoverBuf],
                                      !.threw = r.threw, !.error = r.error,
                                      !.result = r.result]

\* lsb.decode(s) for s the cover buffer or the buffer the last encode returned
CodecDecode ==
    \E s \in DOMAIN heap :
        \E r \in {LSBAlgorithm_decode(heap[s])} :
        /\ heap' = heap
        /\ UNCHANGED <<engineVars, ioVars>>
        /\ last' = [NoCall EXCEPT !.op = "codec.decode",
                                  !.payload = IF s = last.result THEN last.payload ELSE <<>>,
                                  !.input = s, !.before = heap[s],
                                  !.ofEncode = (last.op = "codec.encode" /\ s = last.result),
                                  !.threw = r.threw, !.error = r.error,
                                  !.data = r.data, !.read = r.read]

\* lsb.calculateCapacity(cover) for the cover buffer or a Buffer.alloc(10000)
CodecCapacity ==
    \E cover \in {heap[CoverBuf], BufferAlloc(LargeCoverLen)} :
        /\ heap' = heap
        /\ UNCHANGED <<engineVars, ioVars>>
        /\ last' = [NoCall EXCEPT !.op = "codec.capacity", !.len = Len(cover),
                                  !.value = calculateCapacity(cover)]

NextCodec == CodecEncode \/ CodecDecode \/ CodecCapacity

SpecCodec == InitCodec /\ [][NextCodec]_vars

(***************************************************************************)
(* Use of the engine: the caller holds two buffers, constructs an engine,  *)
(* and calls its operations in any order with inputs from small sets.      *)
(***************************************************************************)
\* the caller's buffers: Buffer.alloc(40, 0xAA) and Buffer.alloc(48, 0xBB)
CallerHeap == (1 :> Filled(40, <<170, 170>>)) @@ (2 :> Filled(48, <<187, 187>>))

EnginePayloads == {<<>>, <<18>>, <<18, 255>>}
DirectPayloads == {<<18>>}

\* the cover media passed: each buffer of the caller
MediaChoices == {BufferMedia(b) : b \in CallerBufs}

\* the cover media lists passed as config.coverMedia: no cover, one buffer,
\* or both buffers in either order
CoverLists ==
    {<<>>}
    \cup {<<m>> : m \in MediaChoices}
    \cup {l \in {<<m1, m2>> : m1, m2 \in MediaChoices} : l[1] # l[2]}
    \cup {<<InvalidMedia, BufferMedia(2)>>}

\* the listeners registered: on these events, returning or raising
ListenedEvents == {"encode", "decode", "error"}
ListenerKinds == {"ok", "throw"}

\* the partial configs passed to updateConfig
Partials ==
    {[enabled |-> b] : b \in BOOLEAN}
    \cup {[coverMedia |-> l] : l \in CoverLists}

\* the configs passed to the constructor
CtorConfigs ==
    {<<>>, [enabled |-> FALSE], [coverMedia |-> <<BufferMedia(1)>>]}

\* new StegEngine(cfg)
Init ==
    \E cfg \in CtorConfigs :
        /\ heap = CallerHeap
        /\ last = NoCall
        /\ config = ConstructorConfig(cfg)
        /\ algorithm = Null
        /\ coverMediaPool =
               normalizeCoverMedia(Null, CallerHeap, OrDefault(cfg, "coverMedia", <<>>))
        /\ coverIndex = 0
        /\ listeners = NoListeners
        /\ transport = NoTransport
        /\ adapter = NoAdapter
        /\ normalizer = NoNormalizer

\* engine.setAlgorithm(new LSBAlgorithm())
SetAlgorithm ==
    /\ algorithm' = setAlgorithm(config, NewLSBAlgorithm)
    /\ heap' = Owned(heap)
    /\ last' = [NoCall EXCEPT !.op = "setAlgorithm"]
    /\ UNCHANGED <<config, coverMediaPool, coverIndex, listeners, ioVars>>

NumListeners ==
    Len(listeners["encode"]) + Len(listeners["decode"])
    + Len(listeners["error"]) + Len(listeners["configUpdated"])

\* engine.on(ev, listener)
On ==
    /\ NumListeners < MaxListeners
    /\ \E ev \in ListenedEvents, kind \in ListenerKinds :
           listeners' = [listeners EXCEPT ![ev] = Append(@, kind)]
    /\ heap' = Owned(heap)
    /\ last' = [NoCall EXCEPT !.op = "on"]
    /\ UNCHANGED <<config, algorithm, coverMediaPool, coverIndex, ioVars>>

\* engine.addCoverMedia(media)
AddCoverMedia ==
    /\ Len(coverMediaPool) < MaxPool
    /\ \E media \in MediaChoices \cup {InvalidMedia} :
           coverMediaPool' =
               coverMediaPool \o normalizeSingleCover(algorithm, heap, media)
    /\ heap' = Owned(heap)
    /\ last' = [NoCall EXCEPT !.op = "addCoverMedia"]
    /\ UNCHANGED <<config, algorithm, coverIndex, listeners, ioVars>>

\* engine.updateConfig(partial)
UpdateConfigWith(partial) ==
        LET em == Emit(listeners, "configUpdated") IN
        /\ config' = ObjectAssign(config, partial)
        /\ coverMediaPool' =
               IF "coverMedia" \in DOMAIN partial
               THEN normalizeCoverMedia(algorithm, heap, partial.coverMedia)
               ELSE coverMediaPool
        /\ algorithm' =
               IF "seed" \in DOMAIN partial /\ Truthy(partial.seed) /\ algorithm # Null
               THEN [algorithm EXCEPT !.seed = partial.seed]
               ELSE algorithm
        /\ heap' = Owned(heap)
        /\ last' = [NoCall EXCEPT !.op = "updateConfig", !.partial = partial,
                                  !.threw = em.threw,
                                  !.error = em.error, !.events = <<"configUpdated">>,
                                  !.called = em.called]
        /\ UNCHANGED <<coverIndex, listeners, ioVars>>

UpdateConfig == \E partial \in Partials : UpdateConfigWith(partial)

\* engine.encode(p)
Encode ==
    \E p \in EnginePayloads :
        \E r \in {StegEngine_encode(config, algorithm, coverMediaPool, coverIndex,
                                   listeners, Owned(heap), p)} :
            /\ coverIndex' = r.coverIndex
            /\ heap' = IF r.result # NoBuffer THEN r.heap ELSE Owned(r.heap)
            /\ last' = [NoCall EXCEPT !.op = "encode", !.payload = p,
                                      !.threw = r.threw, !.error = r.error,
                                      !.result = r.result, !.data = r.data,
                                      !.success = r.success,
                                      !.payloadSize = r.payloadSize,
                                      !.coverSize = r.coverSize, !.cover = r.cover,
                                      !.cursor = coverIndex, !.codec = r.codec,
                                      !.events = r.events,
                                      !.notified = r.notified, !.called = r.called]
            /\ UNCHANGED <<config, algorithm, coverMediaPool, listeners, ioVars>>

DecodeCall(op, r, payload, input, bytes, ofEncode, codec) ==
    [NoCall EXCEPT !.op = op, !.payload = payload, !.input = input, !.before = bytes,
                   !.ofEncode = ofEncode, !.codec = codec,
                   !.threw = r.threw, !.error = r.error, !.data = r.data,
                   !.success = r.success, !.payloadSize = r.payloadSize,
                   !.events = r.events, !.notified = r.notified,
                   !.called = r.called]

\* engine.decode(b) for a buffer of the caller
Decode ==
    \E b \in CallerBufs :
    \E r \in {StegEngine_decode(config, algorithm, listeners, heap[b])} :
        /\ last' = DecodeCall("decode", r, <<>>, b, <<>>, FALSE, FALSE)
        /\ heap' = Owned(heap)
        /\ UNCHANGED <<engineVars, ioVars>>

\* engine.decode(result.data) for the result the preceding encode returned
DecodeReturned ==
    /\ last.op = "encode" /\ ~last.threw
    /\ \E r \in {StegEngine_decode(config, algorithm, listeners, Returned)} :
           last' = DecodeCall("decode", r, last.payload, last.result, <<>>,
                              last.success, last.codec)
    /\ heap' = Owned(heap)
    /\ UNCHANGED <<engineVars, ioVars>>

\* a second engine, new StegEngine({}) with setAlgorithm(new LSBAlgorithm())
\* and nothing else, decodes the data the preceding encode returned
ReceiverDecode ==
    /\ last.op = "encode" /\ ~last.threw
    /\ \E r \in {StegEngine_decode(ConstructorConfig(<<>>),
                                     setAlgorithm(ConstructorConfig(<<>>), NewLSBAlgorithm),
                                     NoListeners, Returned)} :
           last' = DecodeCall("receiver.decode", r, last.payload, last.result, <<>>,
                              last.success, last.codec)
    /\ heap' = Owned(heap)
    /\ UNCHANGED <<engineVars, ioVars>>

\* engine.getAlgorithm().encode(p, c) on a buffer of the caller, as
\* StegTransport.encode does
DirectEncode ==
    /\ \E p \in DirectPayloads, c \in CallerBufs :
           \E r \in {IF algorithm = Null
                      THEN [threw |-> TRUE, error |-> Err("No algorithm set", <<>>),
                            heap |-> Owned(heap), result |-> NoBuffer]
                      ELSE LSBAlgorithm_encode(Owned(heap), p, c)} :
           /\ heap' = r.heap
           /\ last' = [NoCall EXCEPT !.op = "codec.encode", !.payload = p,
                                     !.input = c, !.before = heap[c],
                                     !.threw = r.threw, !.error = r.error,
                                     !.result = r.result]
    /\ UNCHANGED <<engineVars, ioVars>>

Next ==
    \/ SetAlgorithm
    \/ On
    \/ AddCoverMedia
    \/ UpdateConfig
    \/ Encode
    \/ Decode
    \/ DecodeReturned
    \/ ReceiverDecode
    \/ DirectEncode

Spec == Init /\ [][Next]_vars

(***************************************************************************)
(* Use of the engine under each error policy: the engine is constructed    *)
(* with an onError value, listeners are registered, covers added, the      *)
(* engine enabled and disabled, and encode and decode called.              *)
(***************************************************************************)
OnErrorValues == {"passthrough", "throw", "drop"}

PolicyConfigs == {[onError |-> o] : o \in OnErrorValues}

InitPolicy ==
    \E cfg \in PolicyConfigs :
        /\ heap = CallerHeap
        /\ last = NoCall
        /\ config = ConstructorConfig(cfg)
        /\ algorithm = Null
        /\ coverMediaPool = <<>>
        /\ coverIndex = 0
        /\ listeners = NoListeners
        /\ transport = NoTransport
        /\ adapter = NoAdapter
        /\ normalizer = NoNormalizer

\* engine.updateConfig({enabled: b})
SetEnabled == \E b \in BOOLEAN : UpdateConfigWith([enabled |-> b])

NextPolicy ==
    \/ SetAlgorithm
    \/ On
    \/ AddCoverMedia
    \/ SetEnabled
    \/ Encode
    \/ Decode
    \/ DecodeReturned

SpecPolicy == InitPolicy /\ [][NextPolicy]_vars

(***************************************************************************)
(* Ownership of cover buffers: the caller hands its buffers to the engine  *)
(* and, once the pool is full, writes into them between encode calls.      *)
(***************************************************************************)
WrittenBytes == {0, 255}

\* b[b.length - 1] = v, by the caller, on a buffer it handed to the engine
CallerWrite ==
    /\ Len(coverMediaPool) = MaxPool
    /\ \E b \in CallerBufs, v \in WrittenBytes :
           /\ \E i \in 1..Len(coverMediaPool) : coverMediaPool[i].data = b
           /\ heap' = [Owned(heap) EXCEPT ![b] = [@ EXCEPT ![Len(@)] = v]]
           /\ last' = [NoCall EXCEPT !.op = "caller.write", !.input = b]
    /\ UNCHANGED <<engineVars, ioVars>>

NextOwnership ==
    \/ SetAlgorithm
    \/ AddCoverMedia
    \/ CallerWrite
    \/ Encode

SpecOwnership == Init /\ [][NextOwnership]_vars

(***************************************************************************)
(* Capacities of the pool: the caller holds two buffers of any of a few    *)
(* lengths, short ones included, adds them to the pool as Buffers or as    *)
(* CoverMedia objects, before or after the codec is set, and asks for the  *)
(* pool statistics.                                                        *)
(***************************************************************************)
\* the lengths of the caller's buffers
CoverLens == {0, 3, 31, 40}

\* the capacity field of a CoverMedia object passed: absent, or a number
SuppliedCapacities == {Undefined, 7}

CapacityMedia ==
    MediaChoices
    \cup {ObjectMedia(b, "image", c) : b \in CallerBufs, c \in SuppliedCapacities}

\* new StegEngine(), the caller holding Buffer.alloc(l1) and Buffer.alloc(l2)
InitCapacity ==
    \E l1 \in CoverLens, l2 \in CoverLens :
        /\ heap = (1 :> BufferAlloc(l1)) @@ (2 :> BufferAlloc(l2))
        /\ last = NoCall
        /\ config = ConstructorConfig(<<>>)
        /\ algorithm = Null
        /\ coverMediaPool = <<>>
        /\ coverIndex = 0
        /\ listeners = NoListeners
        /\ transport = NoTransport
        /\ adapter = NoAdapter
        /\ normalizer = NoNormalizer

\* engine.addCoverMedia(media) for a Buffer or a CoverMedia object
AddMedia ==
    /\ Len(coverMediaPool) < MaxPool
    /\ \E media \in CapacityMedia :
           /\ coverMediaPool' =
                  coverMediaPool \o normalizeSingleCover(algorithm, heap, media)
           /\ last' = [NoCall EXCEPT !.op = "addCoverMedia", !.input = media.data,
                                     !.value = media.capacity]
    /\ heap' = Owned(heap)
    /\ UNCHANGED <<config, algorithm, coverIndex, listeners, ioVars>>

\* engine.getPoolStats()
GetPoolStats ==
    /\ last' = [NoCall EXCEPT !.op = "getPoolStats",
                              !.stats = getPoolStats(coverMediaPool)]
    /\ heap' = Owned(heap)
    /\ UNCHANGED <<engineVars, ioVars>>

NextCapacity ==
    \/ SetAlgorithm
    \/ AddMedia
    \/ GetPoolStats

SpecCapacity == InitCapacity /\ [][NextCapacity]_vars

(***************************************************************************)
(* Configuration of the engine: the engine is constructed with or without  *)
(* a seed, the codec is set, and updateConfig is called with partial       *)
(* configs whose fields hold values or undefined.                          *)
(***************************************************************************)
Seeds == {"", "a", "b"}

SettingsConfigs ==
    {<<>>, [onError |-> UndefinedValue]}
    \cup {[seed |-> s] : s \in Seeds \cup {UndefinedValue}}

SettingsPartials ==
    {[seed |-> s] : s \in Seeds \cup {UndefinedValue}}
    \cup {[onError |-> o] : o \in OnErrorValues \cup {UndefinedValue}}
    \cup {[enabled |-> b] : b \in BOOLEAN}
    \cup {[seed |-> "a", onError |-> "drop"]}

\* new StegEngine(cfg)
InitSettings ==
    \E cfg \in SettingsConfigs :
        /\ heap = CallerHeap
        /\ last = [NoCall EXCEPT !.op = "constructor", !.partial = cfg]
        /\ config = ConstructorConfig(cfg)
        /\ algorithm = Null
        /\ coverMediaPool = <<>>
        /\ coverIndex = 0
        /\ listeners = NoListeners
        /\ transport = NoTransport
        /\ adapter = NoAdapter
        /\ normalizer = NoNormalizer

\* engine.updateConfig(partial)
UpdateSettings == \E partial \in SettingsPartials : UpdateConfigWith(partial)

NextSettings ==
    \/ SetAlgorithm
    \/ UpdateSettings

SpecSettings == InitSettings /\ [][NextSettings]_vars

(***************************************************************************)
(* Notifications: an engine with one cover, listeners registered on any of *)
(* its events, the engine enabled and disabled, and encode and decode      *)
(* called.                                                                 *)
(***************************************************************************)
\* new StegEngine({coverMedia: [B]}) for the caller's second buffer
InitEvents ==
    /\ heap = CallerHeap
    /\ last = NoCall
    /\ config = ConstructorConfig(<<>>)
    /\ algorithm = Null
    /\ coverMediaPool = normalizeCoverMedia(Null, CallerHeap, <<BufferMedia(2)>>)
    /\ coverIndex = 0
    /\ listeners = NoListeners
    /\ transport = NoTransport
    /\ adapter = NoAdapter
    /\ normalizer = NoNormalizer

\* engine.on(ev, listener) for any event of the engine
OnEvent ==
    /\ NumListeners < MaxListeners
    /\ \E ev \in Events, kind \in ListenerKinds :
           listeners' = [listeners EXCEPT ![ev] = Append(@, kind)]
    /\ heap' = Owned(heap)
    /\ last' = [NoCall EXCEPT !.op = "on"]
    /\ UNCHANGED <<config, algorithm, coverMediaPool, coverIndex, ioVars>>

NextEvents ==
    \/ SetAlgorithm
    \/ OnEvent
    \/ SetEnabled
    \/ Encode
    \/ DecodeReturned

SpecEvents == InitEvents /\ [][NextEvents]_vars

(***************************************************************************)
(* Use of an adapter on its own: a MemoryAdapter, or a BaseAdapter         *)
(* subclass whose doSend and doClose may raise; data handlers are          *)
(* registered, data sent and received, and the adapter closed.             *)
(***************************************************************************)
AdapterPayloads == {<<18>>}

\* what the loop over the data handlers starts from
NotDelivered ==
    [threw |-> FALSE, error |-> NoError, delivering |-> FALSE, outputData |-> <<>>,
     handled |-> 0, errors |-> 0]

InitAdapter ==
    /\ heap = CallerHeap
    /\ last = NoCall
    /\ config = ConstructorConfig(<<>>)
    /\ algorithm = Null
    /\ coverMediaPool = <<>>
    /\ coverIndex = 0
    /\ listeners = NoListeners
    /\ transport = NoTransport
    /\ adapter \in {NewMemoryAdapter, NewFailingAdapter}
    /\ normalizer = NoNormalizer

\* whether doSend / doClose raises in this call: never in a MemoryAdapter
Raises == IF adapter.kind = "failing" THEN BOOLEAN ELSE {FALSE}

\* adapter.onData(handler)
AdapterOnData ==
    /\ Len(adapter.dataHandlers) < MaxHandlers
    /\ \E kind \in ListenerKinds :
           adapter' = [adapter EXCEPT !.dataHandlers = Append(@, kind)]
    /\ last' = [NoCall EXCEPT !.op = "adapter.onData", !.state = adapter.state]
    /\ heap' = Owned(heap)
    /\ UNCHANGED <<engineVars, transport, normalizer>>

\* adapter.send(p, callback)
AdapterSend ==
    /\ Gated(adapter.state) \/ Len(adapter.sentData) < MaxLog
    /\ \E p \in AdapterPayloads, raises \in Raises :
       \E s \in {BaseAdapter_send(adapter, p, raises)} :
           /\ adapter' = s.adapter
           /\ last' = [NoCall EXCEPT !.op = "adapter.send", !.payload = p,
                                     !.state = adapter.state,
                                     !.sent = Len(adapter.sentData),
                                     !.threw = s.threw, !.error = s.error,
                                     !.callback = s.callback, !.doSend = s.doSend]
    /\ heap' = Owned(heap)
    /\ UNCHANGED <<engineVars, transport, normalizer>>

\* adapter.close()
AdapterClose ==
    /\ \E raises \in Raises :
       \E c \in {BaseAdapter_close(adapter, raises)} :
           /\ adapter' = c.adapter
           /\ last' = [NoCall EXCEPT !.op = "adapter.close",
                                     !.state = adapter.state,
                                     !.sent = Len(adapter.sentData),
                                     !.threw = c.threw, !.error = c.error]
    /\ heap' = Owned(heap)
    /\ UNCHANGED <<engineVars, transport, normalizer>>

\* adapter.receive(b) for a buffer of the caller (MemoryAdapter only)
AdapterReceive ==
    /\ adapter.kind = "memory"
    /\ adapter.received < MaxLog
    /\ \E b \in CallerBufs :
       \E d \in {callHandlers(adapter.dataHandlers, NoTransportListeners,
                               [NotDelivered EXCEPT !.delivering = TRUE,
                                                    !.outputData = heap[b]])} :
           /\ adapter' = [adapter EXCEPT !.received = @ + 1]
           /\ last' = [NoCall EXCEPT !.op = "adapter.receive", !.input = b,
                                     !.state = adapter.state,
                                     !.sent = Len(adapter.sentData),
                                     !.threw = d.threw, !.error = d.error,
                                     !.delivering = d.delivering,
                                     !.handled = d.handled, !.errors = d.errors]
    /\ heap' = Owned(heap)
    /\ UNCHANGED <<engineVars, transport, normalizer>>

NextAdapter ==
    \/ AdapterOnData
    \/ AdapterSend
    \/ AdapterClose
    \/ AdapterReceive

SpecAdapter == InitAdapter /\ [][NextAdapter]_vars

(***************************************************************************)
(* Use of a StegTransport over a MemoryAdapter: the engine is constructed, *)
(* given the codec and a cover, and wrapped with the adapter; listeners    *)
(* are registered on the transport, data sent, the metadata read and the   *)
(* transport closed.                                                       *)
(***************************************************************************)
\* the payloads sent: one that fits the cover and one that does not
TransportPayloads == {<<18>>, <<18, 255, 0>>}

TransportConfigs == {<<>>, [onError |-> "drop"]}

\* engine = new StegEngine(cfg); engine.setAlgorithm(new LSBAlgorithm());
\* engine.addCoverMedia(B); new StegTransport(new MemoryAdapter(), engine)
InitTransportWith(cfg, h) ==
    /\ heap = h
    /\ last = NoCall
    /\ config = ConstructorConfig(cfg)
    /\ algorithm = setAlgorithm(ConstructorConfig(cfg), NewLSBAlgorithm)
    /\ coverMediaPool = normalizeSingleCover(NewLSBAlgorithm, h, BufferMedia(2))
    /\ coverIndex = 0
    /\ listeners = Forwarders(NoTransportListeners)
    /\ transport = NewStegTransport
    /\ adapter = [NewMemoryAdapter EXCEPT !.dataHandlers = <<"transport">>]
    /\ normalizer = NoNormalizer

InitTransport == \E cfg \in TransportConfigs : InitTransportWith(cfg, CallerHeap)

NumTransportListeners ==
    Len(transport.listeners["encode"]) + Len(transport.listeners["decode"])
    + Len(transport.listeners["error"]) + Len(transport.listeners["close"])

\* transport.on(ev, listener) for ev in evs
TransportOnOf(evs) ==
    /\ NumTransportListeners < MaxListeners
    /\ \E ev \in evs, kind \in ListenerKinds :
       \E tl \in {[transport.listeners EXCEPT ![ev] = Append(@, kind)]} :
           /\ transport' = [transport EXCEPT !.listeners = tl]
           /\ listeners' = Forwarders(tl)
    /\ last' = [NoCall EXCEPT !.op = "transport.on"]
    /\ heap' = Owned(heap)
    /\ UNCHANGED <<config, algorithm, coverMediaPool, coverIndex, adapter, normalizer>>

TransportOn == TransportOnOf({"error", "close"})

\* transport.send(p, callback)
TransportSend ==
    /\ transport.closed \/ Len(adapter.sentData) < MaxLog
    /\ \E p \in TransportPayloads :
       \E r \in {IF AlreadyClosed(transport) THEN NoCall
                  ELSE StegEngine_encode(config, algorithm, coverMediaPool,
                                         coverIndex, listeners, Owned(heap), p)} :
       \E s \in {StegTransport_send(transport, adapter, config, coverIndex,
                                     Owned(heap), r)} :
           /\ adapter' = s.adapter
           /\ coverIndex' = s.coverIndex
           /\ heap' = Owned(s.heap)
           /\ last' = [NoCall EXCEPT !.op = "transport.send", !.payload = p,
                                     !.threw = s.threw, !.error = s.error,
                                     !.callback = s.callback,
                                     !.codec = s.encoded, !.doSend = s.innerSend,
                                     !.cursor = coverIndex,
                                     !.sent = Len(adapter.sentData),
                                     !.events = s.events]
    /\ UNCHANGED <<config, algorithm, coverMediaPool, listeners, transport, normalizer>>

\* transport.close()
TransportClose ==
    /\ \E c \in {StegTransport_close(transport, adapter)} :
           /\ transport' = c.transport
           /\ adapter' = c.adapter
           /\ last' = [NoCall EXCEPT !.op = "transport.close",
                                     !.threw = c.threw, !.error = c.error,
                                     !.sent = Len(adapter.sentData)]
    /\ heap' = Owned(heap)
    /\ UNCHANGED <<engineVars, normalizer>>

\* transport.getMetadata()
TransportGetMetadata ==
    /\ last' = [NoCall EXCEPT !.op = "transport.getMetadata",
                              !.state = StegTransport_connectionState(transport, adapter),
                              !.stats = getPoolStats(coverMediaPool),
                              !.sent = Len(adapter.sentData)]
    /\ heap' = Owned(heap)
    /\ UNCHANGED <<engineVars, ioVars>>

NextTransport ==
    \/ TransportOn
    \/ TransportSend
    \/ TransportClose
    \/ TransportGetMetadata

SpecTransport == InitTransport /\ [][NextTransport]_vars

(***************************************************************************)
(* Incoming data: a StegTransport over a MemoryAdapter, data handlers and  *)
(* 'error' listeners registered on the transport, and data received by the *)
(* adapter: what a peer's codec encoded, or bytes that are no such data.   *)
(***************************************************************************)
\* the buffers received: buffer 1 is LSBAlgorithm.encode([0x12], cover) of a
\* peer, buffer 2 (the engine's cover) holds nothing encoded
DeliveryHeap ==
    (1 :> encodeBytes(<<18>>, Filled(40, <<170, 170>>))) @@ (2 :> CallerHeap[2])

InitDelivery == InitTransportWith(<<>>, DeliveryHeap)

\* transport.onData(handler)
TransportOnData ==
    /\ Len(transport.dataHandlers) < MaxHandlers
    /\ \E kind \in ListenerKinds :
           transport' = [transport EXCEPT !.dataHandlers = Append(@, kind)]
    /\ last' = [NoCall EXCEPT !.op = "transport.onData"]
    /\ heap' = Owned(heap)
    /\ UNCHANGED <<engineVars, adapter, normalizer>>

\* transport.on('error', listener)
TransportOnError == TransportOnOf({"error"})

\* adapter.receive(b): emitData calls the handler the transport registered,
\* which calls handleIncomingData
Receive ==
    /\ adapter.received < MaxLog
    /\ \E b \in CallerBufs :
       \E dec \in {StegEngine_decode(config, algorithm, listeners, heap[b])} :
       \E hid \in {handleIncomingData(transport, dec, heap[b])} :
       \E d \in {callHandlers(<<IF hid.threw THEN "throw" ELSE "ok">>,
                               NoTransportListeners,
                               [NotDelivered EXCEPT !.delivering = TRUE])} :
           /\ adapter' = [adapter EXCEPT !.received = @ + 1]
           /\ last' = [NoCall EXCEPT !.op = "adapter.receive", !.input = b,
                                     !.threw = d.threw, !.error = hid.error,
                                     !.success = dec.success,
                                     !.data = hid.outputData,
                                     !.events = dec.events,
                                     !.delivering = hid.delivering,
                                     !.handled = hid.handled,
                                     !.errors = hid.errors]
    /\ heap' = Owned(heap)
    /\ UNCHANGED <<engineVars, transport, normalizer>>

NextDelivery ==
    \/ TransportOnData
    \/ TransportOnError
    \/ Receive

SpecDelivery == InitDelivery /\ [][NextDelivery]_vars

(***************************************************************************)
(* The cursor: an engine whose covers are a 31-byte buffer (capacity 0: the *)
(* empty payload passes the capacity check and the codec raises) and a     *)
(* 40-byte buffer (capacity 1), used through every operation that could    *)
(* move the cursor.                                                        *)
(***************************************************************************)
CursorHeap == (1 :> Filled(31, <<170, 170>>)) @@ (2 :> Filled(40, <<187, 187>>))

InitCursor ==
    /\ heap = CursorHeap
    /\ last = NoCall
    /\ config = ConstructorConfig(<<>>)
    /\ algorithm = Null
    /\ coverMediaPool = <<>>
    /\ coverIndex = 0
    /\ listeners = NoListeners
    /\ transport = NoTransport
    /\ adapter = NoAdapter
    /\ normalizer = NoNormalizer

\* engine.getConfig()
GetConfig ==
    /\ last' = [NoCall EXCEPT !.op = "getConfig", !.partial = config]
    /\ heap' = Owned(heap)
    /\ UNCHANGED <<engineVars, ioVars>>

NextCursor ==
    \/ SetAlgorithm
    \/ On
    \/ AddCoverMedia
    \/ UpdateConfig
    \/ Encode
    \/ Decode
    \/ GetPoolStats
    \/ GetConfig

SpecCursor == InitCursor /\ [][NextCursor]_vars

(***************************************************************************)
(* The logs of a MemoryAdapter: the caller sends and receives its two      *)
(* buffers, writes into them between the calls, reads the statistics and   *)
(* clears the logs.                                                        *)
(***************************************************************************)
LogHeap == (1 :> <<1, 2>>) @@ (2 :> <<3>>)

InitLog ==
    /\ heap = LogHeap
    /\ last = NoCall
    /\ config = ConstructorConfig(<<>>)
    /\ algorithm = Null
    /\ coverMediaPool = <<>>
    /\ coverIndex = 0
    /\ listeners = NoListeners
    /\ transport = NoTransport
    /\ adapter = NewLoggingAdapter
    /\ normalizer = NoNormalizer

\* the number of buffers the two logs hold
LogSize == Len(adapter.sentData) + Len(adapter.receivedData)

\* adapter.send(b)
LogSend ==
    /\ LogSize <= MaxLog
    /\ \E b \in CallerBufs :
       \E s \in {MemoryAdapter_send(heap, adapter, b)} :
           /\ adapter' = s.adapter
           /\ heap' = Kept(s.heap, s.adapter)
           /\ last' = [NoCall EXCEPT !.op = "log.send", !.input = b,
                                     !.before = heap[b],
                                     !.callback = s.callback, !.doSend = s.doSend]
    /\ UNCHANGED <<engineVars, transport, normalizer>>

\* adapter.receive(b)
LogReceive ==
    /\ LogSize <= MaxLog
    /\ \E b \in CallerBufs :
       \E r \in {MemoryAdapter_receive(heap, adapter, b)} :
           /\ adapter' = r.adapter
           /\ heap' = Kept(r.heap, r.adapter)
           /\ last' = [NoCall EXCEPT !.op = "log.receive", !.input = b,
                                     !.before = heap[b], !.threw = r.threw,
                                     !.error = r.error, !.handled = r.handled]
    /\ UNCHANGED <<engineVars, transport, normalizer>>

\* adapter.clear()
LogClear ==
    /\ adapter' = MemoryAdapter_clear(adapter)
    /\ heap' = Kept(heap, adapter')
    /\ last' = [NoCall EXCEPT !.op = "log.clear"]
    /\ UNCHANGED <<engineVars, transport, normalizer>>

\* adapter.getStats()
LogGetStats ==
    /\ last' = [NoCall EXCEPT !.op = "log.getStats",
                              !.logStats = MemoryAdapter_getStats(heap, adapter)]
    /\ UNCHANGED <<heap, engineVars, ioVars>>

\* b[0] = 0xff, by the caller, on one of its buffers
LogCallerWrite ==
    /\ \E b \in CallerBufs :
           heap' = [heap EXCEPT ![b] = [@ EXCEPT ![1] = 255]]
    /\ last' = [NoCall EXCEPT !.op = "log.write"]
    /\ UNCHANGED <<engineVars, ioVars>>

NextLog ==
    \/ LogSend
    \/ LogReceive
    \/ LogClear
    \/ LogGetStats
    \/ LogCallerWrite

SpecLog == InitLog /\ [][NextLog]_vars

(***************************************************************************)
(* Loopback: a MemoryAdapter on which enableLoopback was called.  Data     *)
(* handlers are registered, the caller sends its buffers, writes into them *)
(* and clears the logs, and the event loop runs the deferred receive calls *)
(* in the order they were scheduled.                                       *)
(***************************************************************************)
\* const adapter = new MemoryAdapter(); adapter.enableLoopback()
InitLoopback ==
    /\ heap = LogHeap
    /\ last = NoCall
    /\ config = ConstructorConfig(<<>>)
    /\ algorithm = Null
    /\ coverMediaPool = <<>>
    /\ coverIndex = 0
    /\ listeners = NoListeners
    /\ transport = NoTransport
    /\ adapter = MemoryAdapter_enableLoopback(
                      NewLoggingAdapter @@ [loopback |-> 0, pending |-> <<>>])
    /\ normalizer = NoNormalizer

\* adapter.enableLoopback(), once more
EnableLoopback ==
    /\ adapter.loopback < MaxWraps
    /\ adapter' = MemoryAdapter_enableLoopback(adapter)
    /\ heap' = Kept(heap, adapter')
    /\ last' = [NoCall EXCEPT !.op = "loopback.enable"]
    /\ UNCHANGED <<engineVars, transport, normalizer>>

\* adapter.onData(handler)
LoopbackOnData ==
    /\ Len(adapter.dataHandlers) < MaxHandlers
    /\ \E kind \in ListenerKinds :
           adapter' = [adapter EXCEPT !.dataHandlers = Append(@, kind)]
    /\ last' = [NoCall EXCEPT !.op = "loopback.onData"]
    /\ UNCHANGED <<heap, engineVars, transport, normalizer>>

\* adapter.send(b)
LoopbackSend ==
    /\ LogSize + Len(adapter.pending) <= MaxLog
    /\ \E b \in CallerBufs :
       \E s \in {MemoryAdapter_loopbackSend(heap, adapter, b)} :
           /\ adapter' = s.adapter
           /\ heap' = Kept(s.heap, s.adapter)
           /\ last' = [NoCall EXCEPT !.op = "loopback.send", !.input = b,
                                     !.before = heap[b],
                                     !.callback = s.callback, !.doSend = s.doSend]
    /\ UNCHANGED <<engineVars, transport, normalizer>>

\* the event loop runs the oldest deferred () => this.receive(data)
RunDeferred ==
    /\ adapter.pending # <<>>
    /\ \E task \in {Head(adapter.pending)} :
       \E r \in {MemoryAdapter_receive(heap, adapter, task.data)} :
           /\ adapter' = [r.adapter EXCEPT !.pending = Tail(@)]
           /\ heap' = Kept(r.heap, r.adapter)
           /\ last' = [NoCall EXCEPT !.op = "loopback.deliver",
                                     !.input = task.data,
                                     !.before = task.sentBytes,
                                     !.data = heap[task.data],
                                     !.threw = r.threw, !.error = r.error,
                                     !.delivering = TRUE,
                                     !.handled = r.handled]
    /\ UNCHANGED <<engineVars, transport, normalizer>>

NextLoopback ==
    \/ EnableLoopback
    \/ LoopbackOnData
    \/ LoopbackSend
    \/ LogCallerWrite
    \/ LogClear
    \/ RunDeferred

SpecLoopback == InitLoopback /\ [][NextLoopback]_vars

(***************************************************************************)
(* Use of a StreamNormalizer: listeners are registered, chunks and SSE      *)
(* lines fed, the stream completed or ended, its state read and reset.     *)
(***************************************************************************)
\* the chunks fed: provider chunks with the text 'a' or 'b', one in which
\* no text is found, and a value that is no object
Chunks ==
    {[object |-> TRUE, text |-> <<"a">>], [object |-> TRUE, text |-> <<"b">>],
     [object |-> TRUE, text |-> <<>>], [object |-> FALSE, text |-> <<>>]}

\* the lines fed: with and without the prefix 'data: '
SSELines ==
    {[prefixed |-> p, rest |-> r] :
         p \in BOOLEAN, r \in {"[DONE]", "{a}", "42", "{oops"}}

InitNormalizer ==
    /\ heap = CallerHeap
    /\ last = NoCall
    /\ config = ConstructorConfig(<<>>)
    /\ algorithm = Null
    /\ coverMediaPool = <<>>
    /\ coverIndex = 0
    /\ listeners = NoListeners
    /\ transport = NoTransport
    /\ adapter = NoAdapter
    /\ normalizer = NewStreamNormalizer

NumNormalizerListeners ==
    Len(normalizer.listeners["chunk"]) + Len(normalizer.listeners["complete"])
    + Len(normalizer.listeners["error"])

\* normalizer.on(ev, listener)
NormalizerOn ==
    /\ NumNormalizerListeners < MaxListeners
    /\ \E ev \in NormalizerEvents, kind \in ListenerKinds :
           normalizer' = [normalizer EXCEPT !.listeners[ev] = Append(@, kind)]
    /\ last' = [NoCall EXCEPT !.op = "normalizer.on"]
    /\ UNCHANGED <<heap, engineVars, transport, adapter>>

\* normalizer.feed(chunk)
Feed ==
    /\ Len(normalizer.buffer) < MaxText
    /\ \E chunk \in Chunks :
       \E f \in {StreamNormalizer_feed(normalizer, chunk)} :
           /\ normalizer' = f.normalizer
           /\ last' = [NoCall EXCEPT !.op = "normalizer.feed", !.threw = f.threw,
                                     !.events = f.events]
    /\ UNCHANGED <<heap, engineVars, transport, adapter>>

\* normalizer.feedSSE(line)
FeedSSE ==
    /\ Len(normalizer.buffer) < MaxText
    /\ \E line \in SSELines :
       \E f \in {StreamNormalizer_feedSSE(normalizer, line)} :
           /\ normalizer' = f.normalizer
           /\ last' = [NoCall EXCEPT !.op = "normalizer.feedSSE", !.line = line,
                                     !.threw = f.threw, !.events = f.events,
                                     !.text = f.text]
    /\ UNCHANGED <<heap, engineVars, transport, adapter>>

\* normalizer.complete()
Complete ==
    /\ \E c \in {StreamNormalizer_complete(normalizer)} :
           /\ normalizer' = c.normalizer
           /\ last' = [NoCall EXCEPT !.op = "normalizer.complete",
                                     !.threw = c.threw, !.events = c.events,
                                     !.text = c.text]
    /\ UNCHANGED <<heap, engineVars, transport, adapter>>

\* normalizer.end()
End ==
    /\ \E c \in {StreamNormalizer_complete(normalizer)} :
           /\ normalizer' = c.normalizer
           /\ last' = [NoCall EXCEPT !.op = "normalizer.end",
                                     !.threw = c.threw, !.events = c.events,
                                     !.text = c.text]
    /\ UNCHANGED <<heap, engineVars, transport, adapter>>

\* normalizer.isEnded()
IsEnded ==
    /\ last' = [NoCall EXCEPT !.op = "normalizer.isEnded",
                              !.success = normalizer.streamEnded]
    /\ UNCHANGED <<heap, engineVars, ioVars>>

\* normalizer.reset()
Reset ==
    /\ normalizer' = StreamNormalizer_reset(normalizer)
    /\ last' = [NoCall EXCEPT !.op = "normalizer.reset"]
    /\ UNCHANGED <<heap, engineVars, transport, adapter>>

NextNormalizer ==
    \/ NormalizerOn
    \/ Feed
    \/ FeedSSE
    \/ Complete
    \/ End
    \/ IsEnded
    \/ Reset

SpecNormalizer == InitNormalizer /\ [][NextNormalizer]_vars

(***************************************************************************)
(* Properties of the codec, checked under SpecCodec                        *)
(***************************************************************************)
\* bit k (0 = least significant) of a number 0 <= x < 2^31
BitOf(x, k) == IF k > 30 THEN 0 ELSE (x \div (2 ^ k)) % 2

\* the positions k < 32 at which byte k of s has bit 0 set
HeaderBitsOf(s) == {k \in 0..(HEADER_SIZE_BITS - 1) : s[k + 1] % 2 = 1}

RECURSIVE SumPow2(_)
SumPow2(S) == IF S = {} THEN 0
              ELSE LET k == CHOOSE x \in S : TRUE IN (2 ^ k) + SumPow2(S \ {k})

EncodeReturned == last.op = "codec.encode" /\ ~last.threw
DecodedTheEncoded == last.op = "codec.decode" /\ last.ofEncode

\* C1: decoding what encode returned for a payload of at least one byte
\* gives back exactly the payload's bytes.
C1_RoundTripNonEmpty ==
    (DecodedTheEncoded /\ Len(last.payload) >= 1)
        => (~last.threw /\ last.data = last.payload)

C1_Witness ==
    /\ DecodedTheEncoded
    /\ last.payload = <<18, 255>>
    /\ last.data = <<18, 255>>

\* C3: the empty payload encodes into every cover of at least 32 bytes, and
\* decoding that output returns an empty buffer instead of failing.
C3_EmptyRoundTrip ==
    /\ (last.op = "codec.encode" /\ last.payload = <<>> /\ Len(last.before) >= 32)
           => ~last.threw
    /\ (DecodedTheEncoded /\ last.payload = <<>>)
           => (~last.threw /\ last.data = <<>>)

\* C4: in the buffer encode returns, bit 0 of byte k is bit k of the payload
\* length for k < 32, and bit 0 of byte 32 + i is bit (i mod 8) of payload
\* byte floor(i / 8) for i < 8 * length.
C4_WireFormat ==
    EncodeReturned =>
        LET n == Len(last.payload) IN
        /\ Len(Returned) >= 32 + 8 * n
        /\ \A k \in 0..31 : Returned[k + 1] % 2 = BitOf(n, k)
        /\ \A i \in 0..(8 * n - 1) :
               Returned[32 + i + 1] % 2 = BitOf(last.payload[(i \div 8) + 1], i % 8)

C4_Witness ==
    /\ EncodeReturned
    /\ last.payload = <<18, 255>>
    /\ last.before = Filled(48, <<255, 255>>)
    /\ Returned[2] = 255 /\ Returned[1] = 254
    /\ Returned[34] = 255 /\ Returned[33] = 254

\* C5: the buffer encode returns differs from the cover only in bit 0 of the
\* bytes at indices below 32 + 8 * length.
C5_MinimalMutation ==
    EncodeReturned =>
        LET n == Len(last.payload) IN
        /\ Len(Returned) = Len(last.before)
        /\ \A k \in 1..Len(last.before) :
               /\ Returned[k] \div 2 = last.before[k] \div 2
               /\ (k - 1 >= 32 + 8 * n) => Returned[k] = last.before[k]
        /\ Cardinality({k \in 1..Len(last.before) : Returned[k] # last.before[k]})
               <= 32 + 8 * n

C5_Witness ==
    /\ EncodeReturned
    /\ last.payload = <<18>>
    /\ last.before = Filled(48, <<255, 255>>)
    /\ Cardinality({k \in 1..48 : Returned[k] # last.before[k]}) = 37

\* C7: calculateCapacity of a cover of L bytes is the largest n >= 0 with
\* 32 + 8 * n <= L, and 0 when there is none; it is never negative.
C7_CapacityFormula ==
    last.op = "codec.capacity" =>
        /\ last.value >= 0
        /\ last.len < 40 => last.value = 0
        /\ last.len >= 32 =>
               (32 + 8 * last.value <= last.len /\ last.len < 32 + 8 * (last.value + 1))
        /\ last.len = 31 => last.value = 0
        /\ last.len = 32 => last.value = 0
        /\ last.len = 100 => last.value = 8
        /\ last.len = 10000 => last.value = 1246

C7_Witness ==
    /\ last.op = "codec.capacity"
    /\ last.len = 10000
    /\ last.value = 1246

\* C8: encode raises exactly when the cover is shorter than
\* (payload length + 4) * 8; when it raises the cover is unchanged and no
\* buffer has been produced.
C8_CapacityFailure ==
    last.op = "codec.encode" =>
        /\ last.threw <=> (Len(last.before) < (Len(last.payload) + 4) * 8)
        /\ last.threw =>
               (last.result = NoBuffer /\ DOMAIN heap = {CoverBuf}
                    /\ heap[CoverBuf] = last.before)
        /\ ~last.threw => (last.result \in DOMAIN heap /\ last.result # CoverBuf)

C8_Witness ==
    /\ last.op = "codec.encode"
    /\ last.threw
    /\ Len(last.payload) = 100
    /\ Len(last.before) = 100

\* C9: decode raises on fewer than 32 bytes, raises when the header's length
\* n is <= 0 or exceeds floor((length - 32) / 8), and otherwise returns
\* exactly n bytes without reading past the end of its input.
C9_DecodeValidation ==
    last.op = "codec.decode" =>
        LET s == last.before IN
        IF Len(s) < 32 THEN last.threw
        ELSE LET bits == HeaderBitsOf(s)
                 low == SumPow2(bits \ {31})
                 bad == \/ bits = {}
                        \/ 31 \in bits
                        \/ low > (Len(s) - 32) \div 8
             IN  /\ last.threw <=> bad
                 /\ ~last.threw => (Len(last.data) = low /\ last.read <= Len(s))

C9_Witness ==
    /\ last.op = "codec.decode"
    /\ ~last.threw
    /\ last.before = Stamped(48, {1})
    /\ last.data = <<170, 170>>
    /\ last.read = 48

(***************************************************************************)
(* Properties of the engine, checked under Spec                            *)
(***************************************************************************)
\* the last call decoded what a successful encode of a non-empty payload on
\* this engine returned
DecodedEngineOutput ==
    /\ last.op \in {"decode", "receiver.decode"}
    /\ last.ofEncode
    /\ Len(last.payload) >= 1

\* C2: when encode(p) succeeded for a non-empty p, decode of the data it
\* returned, on the same engine, succeeds with data = p and payloadSize =
\* p.length; a second engine with an LSB codec and an empty pool decodes the
\* codec's output to p as well.
C2_EngineRoundTrip ==
    (DecodedEngineOutput /\ (last.op = "receiver.decode" => last.codec))
        => /\ ~last.threw
           /\ last.success
           /\ last.data = last.payload
           /\ last.payloadSize = Len(last.payload)

\* C6: codec.encode leaves the bytes of its cover as they were and returns
\* another buffer of the cover's length; no engine call changes the bytes of
\* a buffer of the caller or of a pool entry; a successful engine encode
\* returns data of coverSize bytes, which is the selected cover's length.
C6_CoversReadOnly ==
    /\ \A b \in CallerBufs : heap[b] = CallerHeap[b]
    /\ \A i \in 1..Len(coverMediaPool) :
           heap[coverMediaPool[i].data] = CallerHeap[coverMediaPool[i].data]
    /\ (last.op = "codec.encode" /\ ~last.threw) =>
           /\ heap[last.input] = last.before
           /\ last.result \in DOMAIN heap
           /\ last.result # last.input
           /\ Len(heap[last.result]) = Len(last.before)
    /\ (last.op = "encode" /\ ~last.threw /\ last.success) =>
           /\ Len(Returned) = last.coverSize
           /\ last.cover # 0 =>
                  /\ last.result \in DOMAIN heap
                  /\ \A i \in 1..Len(coverMediaPool) :
                         coverMediaPool[i].data # last.result
                  /\ last.coverSize = Len(heap[coverMediaPool[last.cover].data])

C6_Witness ==
    /\ last.op = "encode" /\ last.success
    /\ last.payload = <<18, 255>>
    /\ Len(coverMediaPool) = 2
    /\ last.cover = 2
    /\ coverMediaPool[2].data = 2
    /\ last.coverSize = 48
    /\ Returned # heap[2]
    /\ heap[2] = CallerHeap[2]

\* C10: an encode that reaches cover selection on a pool of n >= 1 covers
\* with the cursor at c uses pool[c mod n] and leaves the cursor at
\* (c + 1) mod n, so successive encodes walk the pool in insertion order.
C10_RoundRobin ==
    (/\ last.op = "encode"
     /\ config.enabled
     /\ algorithm # Null
     /\ Len(coverMediaPool) >= 1)
        => /\ last.cover = (last.cursor % Len(coverMediaPool)) + 1
           /\ coverIndex = (last.cursor + 1) % Len(coverMediaPool)

(***************************************************************************)
(* Properties of the error policies, checked under SpecPolicy              *)
(***************************************************************************)
\* the last call was an encode on an enabled engine that did not succeed
EncodeFailed ==
    /\ last.op = "encode"
    /\ config.enabled
    /\ (last.threw \/ ~last.success)

\* the messages handleError is called with
FailureMessages ==
    {"No algorithm set", "No cover media available", "Data too large", "Encoding failed"}

\* how many of the events emitted by the last call were `error`
ErrorsEmitted == Cardinality({i \in 1..Len(last.events) : last.events[i] = "error"})

\* C11: under 'passthrough' a failed encode returns, without raising, a
\* result with success = false, an error message and the payload's bytes.
C11_Passthrough ==
    (EncodeFailed /\ config.onError = "passthrough")
        => /\ ~last.threw
           /\ ~last.success
           /\ last.error.msg \in FailureMessages
           /\ Returned = last.payload

\* C12: under 'drop' a failed encode returns, without raising, a result with
\* success = false, no data and payloadSize 0.
C12_Drop ==
    (EncodeFailed /\ config.onError = "drop")
        => /\ ~last.threw
           /\ ~last.success
           /\ Returned = <<>>
           /\ last.payloadSize = 0

\* C13: under 'throw' an enabled encode either raises an error carrying the
\* failure message (as its message, or as the error an unhandled-error
\* exception holds) or returns a successful result.
C13_Throw ==
    (last.op = "encode" /\ config.enabled /\ config.onError = "throw")
        => IF last.threw
           THEN last.error.msg \in FailureMessages \/ last.error.cause \in FailureMessages
           ELSE last.success

\* C14: a failed encode emits exactly one `error` event, as the last event
\* of the call, under every policy; a successful encode emits none.
C14_OneErrorEvent ==
    /\ EncodeFailed =>
           /\ ErrorsEmitted = 1
           /\ last.events[Len(last.events)] = "error"
    /\ (last.op = "encode" /\ ~last.threw /\ last.success) => ErrorsEmitted = 0

C14_Witness ==
    /\ EncodeFailed
    /\ config.onError = "throw"
    /\ last.threw
    /\ last.error.msg = "Data too large"
    /\ listeners["error"] = <<"ok">>
    /\ last.events = <<"error">>

\* C15: while the engine is disabled, encode returns success with the
\* payload and decode returns success with its input; neither invokes the
\* codec, selects a cover, moves the cursor or emits an event.
C15_Bypass ==
    /\ (last.op = "encode" /\ ~config.enabled) =>
           /\ ~last.threw /\ last.success
           /\ last.result = NoBuffer /\ last.data = last.payload
           /\ last.payloadSize = Len(last.payload)
           /\ ~last.codec /\ last.cover = 0
           /\ coverIndex = last.cursor
           /\ last.events = <<>>
    /\ (last.op = "decode" /\ ~config.enabled) =>
           /\ ~last.threw /\ last.success
           /\ last.data = (IF last.input \in CallerBufs THEN heap[last.input]
                           ELSE last.payload)
           /\ last.events = <<>>

C15_Witness ==
    /\ last.op = "decode"
    /\ ~config.enabled
    /\ algorithm # Null
    /\ config.onError = "throw"
    /\ last.input = 2
    /\ last.success
    /\ last.data = CallerHeap[2]

\* C16: an enabled decode never raises; when no codec is set or the codec
\* raises it returns success = false with an error message, no data and
\* payloadSize 0, whatever the onError value and the listeners.
C16_DecodeReturns ==
    (last.op = "decode" /\ config.enabled)
        => /\ ~last.threw
           /\ ~last.success =>
                  /\ last.error # NoError
                  /\ last.data = <<>>
                  /\ last.payloadSize = 0

\* C17: on an enabled engine with a codec and a selected cover, a payload
\* longer than calculateCapacity(cover.data) is a failure whose message names
\* the payload length and the capacity, and the codec's encode is not
\* invoked; a payload within the capacity is handed to the codec's encode.
C17_CapacityGate ==
    (last.op = "encode" /\ config.enabled /\ algorithm # Null /\ last.cover # 0)
        => LET n == Len(last.payload)
               cap == calculateCapacity(heap[coverMediaPool[last.cover].data])
           IN  IF n > cap
               THEN /\ ~last.codec
                    /\ last.threw \/ ~last.success
                    /\ ErrorsEmitted = 1
                    /\ FirstThrower(listeners["error"]) = 0 =>
                           /\ "Data too large" \in {last.error.msg, last.error.cause}
                           /\ last.error.args = <<n, cap>>
               ELSE last.codec

C17_Witness ==
    /\ last.op = "encode"
    /\ last.payload = <<18, 255>>
    /\ last.cover = 1
    /\ coverMediaPool[1].data = 1
    /\ coverMediaPool[1].capacity = 4
    /\ ~last.threw /\ ~last.success
    /\ last.error = Err("Data too large", <<2, 1>>)
    /\ ~last.codec

(***************************************************************************)
(* Properties of the pool under updateConfig, checked under Spec           *)
(***************************************************************************)
\* a cover media the engine accepts: a Buffer or an object with data
IsCover(media) == media.kind \in {"buffer", "object"}

\* the last call was updateConfig with a coverMedia list
ReplacedCoverMedia ==
    /\ last.op = "updateConfig"
    /\ "coverMedia" \in DOMAIN last.partial

\* C18: updateConfig with a coverMedia list L leaves a pool holding exactly
\* the valid entries of L, in L's order, whatever the pool held before;
\* updateConfig without coverMedia leaves the pool as it was.
C18_PoolReplacement ==
    [][last'.op = "updateConfig" =>
          IF "coverMedia" \in DOMAIN last'.partial
          THEN LET valid == SelectSeq(last'.partial.coverMedia, IsCover) IN
               /\ Len(coverMediaPool') = Len(valid)
               /\ \A i \in 1..Len(valid) : coverMediaPool'[i].data = valid[i].data
          ELSE coverMediaPool' = coverMediaPool]_vars

C18_Witness ==
    /\ ReplacedCoverMedia
    /\ last.partial.coverMedia = <<InvalidMedia, BufferMedia(2)>>
    /\ Len(coverMediaPool) = 1
    /\ coverMediaPool[1].data = 2
    /\ coverIndex = 1

\* C19: right after updateConfig replaced the cover media the cursor is 0.
C19_CursorReset == ReplacedCoverMedia => coverIndex = 0

(***************************************************************************)
(* Properties of buffer ownership, checked under SpecOwnership             *)
(***************************************************************************)
\* C20: what the caller writes into a buffer after handing it to the engine
\* does not show in later encode outputs: the data of a successful encode
\* has the length of the selected cover and, above bit 0, the bytes the
\* cover had when it was handed over.
C20_CopyOnAdd ==
    (last.op = "encode" /\ ~last.threw /\ last.success /\ last.cover # 0)
        => LET handed == CallerHeap[coverMediaPool[last.cover].data] IN
           /\ Len(Returned) = Len(handed)
           /\ \A k \in 1..Len(handed) : Returned[k] \div 2 = handed[k] \div 2

(***************************************************************************)
(* Properties of the pool's capacities, checked under SpecCapacity         *)
(***************************************************************************)
\* the sum of the capacities of the entries of a pool
RECURSIVE SumOfCapacities(_, _)
SumOfCapacities(pool, n) ==
    IF n = 0 THEN 0 ELSE SumOfCapacities(pool, n - 1) + pool[n].capacity

\* C21: every pool entry's capacity is at least 0, and so are the
\* totalCapacity and averageCapacity getPoolStats returns, also for covers
\* shorter than the framing size and covers added before a codec is set.
C21_NonNegativeCapacity ==
    /\ \A i \in 1..Len(coverMediaPool) : coverMediaPool[i].capacity >= 0
    /\ last.op = "getPoolStats" =>
           last.stats.totalCapacity >= 0 /\ last.stats.averageCapacity >= 0

\* C22: whenever a codec is set, the capacity stored with every pool entry
\* is what the codec's calculateCapacity returns for the entry's data.
C22_CapacityTracksCodec ==
    algorithm # Null =>
        \A i \in 1..Len(coverMediaPool) :
            coverMediaPool[i].capacity
                = calculateCapacity(heap[coverMediaPool[i].data])

\* C25: getPoolStats changes neither pool, cursor, config, codec nor
\* listeners and emits nothing; it returns the number of pool entries, the
\* sum of their capacities, and the floor of the sum over the number (0 for
\* the empty pool).
C25_PoolStatsPure ==
    [][last'.op = "getPoolStats" =>
          /\ UNCHANGED engineVars
          /\ last'.events = <<>>
          /\ last'.stats.size = Len(coverMediaPool)
          /\ last'.stats.totalCapacity
                 = SumOfCapacities(coverMediaPool, Len(coverMediaPool))
          /\ LET st == last'.stats IN
             IF st.size = 0 THEN st.averageCapacity = 0
             ELSE /\ st.averageCapacity * st.size <= st.totalCapacity
                  /\ st.totalCapacity < (st.averageCapacity + 1) * st.size]_vars

\* a getPoolStats call on a pool whose total is no multiple of its size
C25_Witness ==
    /\ last.op = "getPoolStats"
    /\ last.stats.size = 2
    /\ last.stats.totalCapacity % 2 = 1

(***************************************************************************)
(* Properties of the configuration, checked under SpecSettings             *)
(***************************************************************************)
\* C23: whenever a codec is set (LSBAlgorithm accepts seeding), the seed it
\* stores is the engine's config.seed, for every seed string, the empty one
\* included.
C23_SeedPropagation ==
    algorithm # Null => algorithm.seed = config.seed

\* C24: the config always holds a value for algorithm, seed and onError
\* (enabled and debug hold booleans), and onError is one of passthrough,
\* throw and drop.
C24_ConfigTotality ==
    /\ config.enabled \in BOOLEAN
    /\ config.debug \in BOOLEAN
    /\ config.algorithm # UndefinedValue
    /\ config.seed # UndefinedValue
    /\ config.onError \in OnErrorValues

(***************************************************************************)
(* Properties of the notifications, checked under SpecEvents               *)
(***************************************************************************)
\* C26: a successful encode of an enabled engine emits 'encode' once and
\* nothing else, a successful decode 'decode' once, an updateConfig
\* 'configUpdated' once; when the call returns every listener of the event
\* has been invoked, and the object emitted has the success and payloadSize
\* of the result returned.
C26_SuccessNotifications ==
    /\ \A op \in {"encode", "decode"} :
           (last.op = op /\ ~last.threw /\ last.success /\ config.enabled) =>
               /\ last.events = <<op>>
               /\ last.called = Len(listeners[op])
               /\ last.notified.success = last.success
               /\ last.notified.payloadSize = last.payloadSize
    /\ last.op = "updateConfig" =>
           /\ last.events = <<"configUpdated">>
           /\ ~last.threw => last.called = Len(listeners["configUpdated"])

\* a successful encode of a non-empty payload with a listener on 'encode'
C26_Witness ==
    /\ last.op = "encode" /\ ~last.threw /\ last.success /\ config.enabled
    /\ last.payloadSize > 0
    /\ Len(listeners["encode"]) > 0

\* C27: when the engine has emitted 'encode' (or 'decode'), whatever its
\* listeners do, the call returns the successful result, no 'error' is
\* emitted, and every listener of the event has been invoked.
C27_ListenerIsolation ==
    \A op \in {"encode", "decode"} :
        (last.op = op /\ last.events # <<>> /\ Head(last.events) = op) =>
            /\ ~last.threw
            /\ last.success
            /\ last.events = <<op>>
            /\ last.called = Len(listeners[op])

(***************************************************************************)
(* Properties of the adapters, checked under SpecAdapter                   *)
(***************************************************************************)
\* what C30 says of one call on the adapter
AdapterGateStep ==
    /\ (last'.op = "adapter.send" /\ adapter.state \in {"disconnected", "error"}) =>
           /\ last'.callback = "error"
           /\ last'.error # NoError
           /\ ~last'.doSend
           /\ adapter'.sentData = adapter.sentData
    /\ (adapter.kind = "memory" /\ last'.op = "adapter.close") =>
           /\ adapter'.state = "disconnected"
           /\ adapter'.closeEmitted = 1
    /\ (adapter.kind = "memory" /\ adapter.state = "disconnected") =>
           /\ adapter'.state = "disconnected"
           /\ adapter'.closeEmitted = adapter.closeEmitted

\* C30: a send issued while the adapter is 'disconnected' or 'error' invokes
\* the callback with an error, does not reach doSend and leaves the sent log
\* as it was; a MemoryAdapter starts 'connected', is 'disconnected' after a
\* close and has then emitted 'close' exactly once, and once 'disconnected'
\* it stays so and emits no further 'close'.
C30_AdapterStateGate ==
    /\ adapter.kind = "memory" => adapter.state = "connected"
    /\ [][AdapterGateStep]_vars

\* a send on a closed MemoryAdapter that had sent before
C30_Witness ==
    /\ last.op = "adapter.send"
    /\ adapter.kind = "memory"
    /\ last.state = "disconnected"
    /\ last.sent > 0
    /\ adapter.closeEmitted = 1

(***************************************************************************)
(* Properties of the transport, checked under SpecTransport                *)
(***************************************************************************)
\* C29: the transport invokes the inner transport's close at most once and
\* emits 'close' at most once; a send on a closed transport invokes its
\* callback with 'Transport is closed', calls neither engine.encode (the
\* cursor stays) nor the inner send (the sent log stays); getMetadata on a
\* closed transport reports 'disconnected'.
C29_ClosedAbsorbing ==
    /\ transport.innerCloses <= 1
    /\ transport.closeEmitted <= 1
    /\ last.op \in {"transport.send", "transport.close", "transport.getMetadata"} =>
           Len(adapter.sentData) >= last.sent
    /\ (last.op = "transport.send" /\ transport.closed) =>
           /\ ~last.threw
           /\ last.callback = "error"
           /\ last.error = Err("Transport is closed", <<>>)
           /\ ~last.codec /\ coverIndex = last.cursor /\ last.events = <<>>
           /\ ~last.doSend /\ Len(adapter.sentData) = last.sent
    /\ (last.op = "transport.getMetadata" /\ transport.closed) =>
           last.state = "disconnected"

\* a send on a transport that was closed after it had sent
C29_Witness ==
    /\ last.op = "transport.send"
    /\ transport.closed
    /\ transport.innerCloses = 1
    /\ adapter.state = "disconnected"
    /\ last.sent > 0

(***************************************************************************)
(* Properties of incoming data, checked under SpecDelivery                 *)
(***************************************************************************)
\* the handlers of the transport that raise
RaisingHandlers ==
    {i \in 1..Len(transport.dataHandlers) : transport.dataHandlers[i] = "throw"}

\* C28: when incoming data reaches the transport's data handlers, every
\* handler is invoked, whichever of them raise, and one 'error' of type
\* 'handler' is emitted for each handler that raised, whatever listeners
\* the transport has.
C28_HandlerIsolation ==
    (last.op = "adapter.receive" /\ last.delivering) =>
        /\ last.handled = Len(transport.dataHandlers)
        /\ last.errors = Cardinality(RaisingHandlers)

\* C34: when none of the transport's data handlers raises, every handler is
\* invoked once for each buffer the adapter receives, with the decoded
\* payload when engine.decode succeeds and with the bytes received when it
\* fails.
C34_IncomingData ==
    (last.op = "adapter.receive" /\ RaisingHandlers = {}) =>
        /\ last.handled = Len(transport.dataHandlers)
        /\ last.handled > 0 =>
               last.data = IF last.success
                           THEN LSBAlgorithm_decode(heap[last.input]).data
                           ELSE heap[last.input]

(***************************************************************************)
(* Properties of cover selection, checked under Spec                       *)
(***************************************************************************)
\* C35: an encode of an enabled engine with a codec set and at least one
\* cover in the pool selects a cover of the pool and does not fail with 'No
\* cover media available'.
C35_CoverAvailable ==
    (last.op = "encode" /\ config.enabled /\ algorithm # Null
         /\ Len(coverMediaPool) > 0) =>
        /\ last.cover \in 1..Len(coverMediaPool)
        /\ last.error.msg # "No cover media available"

\* C36: the cursor is at least 0, and below the pool's length whenever the
\* pool is not empty.
C36_CursorRange ==
    /\ coverIndex >= 0
    /\ Len(coverMediaPool) > 0 => coverIndex < Len(coverMediaPool)

(***************************************************************************)
(* The capacity gate and the codec, checked under SpecCodec                *)
(***************************************************************************)
\* C38: a payload of n bytes is within calculateCapacity of a cover exactly
\* when the cover has the (n + 4) * 8 bytes encode requires, so that encode
\* raises exactly for the payloads the capacity check refuses.
C38_GateAgreesWithCodec ==
    last.op = "codec.encode" =>
        /\ (Len(last.payload) <= calculateCapacity(last.before))
               <=> (Len(last.before) >= (Len(last.payload) + 4) * 8)
        /\ (Len(last.payload) <= calculateCapacity(last.before)) <=> ~last.threw

(***************************************************************************)
(* The transport's send and the error policy, checked under SpecTransport  *)
(***************************************************************************)
\* engine.encode reported a failure during the last send
SendEncodeFailed == \E i \in DOMAIN last.events : last.events[i] = "error"

\* C39: a send on an open transport invokes the inner send at most once; when
\* engine.encode fails, under 'drop' the inner send is not invoked and the
\* callback receives the error, and under 'passthrough' the inner send is
\* invoked once with the bytes of the payload; when engine.encode succeeds
\* the inner send is invoked once with the bytes encode returned.
C39_SendPolicy ==
    (last.op = "transport.send" /\ ~transport.closed) =>
        /\ Len(adapter.sentData) <= last.sent + 1
        /\ (SendEncodeFailed /\ config.onError = "drop") =>
               /\ ~last.threw
               /\ ~last.doSend /\ Len(adapter.sentData) = last.sent
               /\ last.callback = "error"
        /\ (SendEncodeFailed /\ config.onError = "passthrough") =>
               /\ ~last.threw
               /\ last.doSend /\ Len(adapter.sentData) = last.sent + 1
               /\ adapter.sentData[Len(adapter.sentData)] = last.payload
        /\ ~SendEncodeFailed =>
               /\ ~last.threw
               /\ last.doSend /\ Len(adapter.sentData) = last.sent + 1
               /\ adapter.sentData[Len(adapter.sentData)] =
                      encodeBytes(last.payload,
                                  heap[coverMediaPool[last.cursor + 1].data])

(***************************************************************************)
(* The frame of the cursor, checked under SpecCursor                       *)
(***************************************************************************)
\* the step is an encode that reaches getNextCover with a non-empty pool
ReachesSelection ==
    /\ last'.op = "encode"
    /\ config.enabled /\ algorithm # Null
    /\ Len(coverMediaPool) > 0

CursorStep ==
    IF ReachesSelection
    THEN coverIndex' = (coverIndex + 1) % Len(coverMediaPool)
    ELSE coverIndex' = coverIndex

\* C37: an encode that reaches cover selection on a non-empty pool advances
\* the cursor by one position modulo the pool's length, whether it then
\* succeeds, fails the capacity check or has the codec raise; every other
\* call, and encode while disabled or with no codec set, leaves the cursor
\* unchanged.
C37_CursorFrame == [][CursorStep]_vars

\* an encode whose codec raised after the capacity check, and one that failed
\* the capacity check, each having moved the cursor
C37_Witness ==
    /\ last.op = "encode"
    /\ ~last.success
    /\ last.cover > 0
    /\ last.error.msg \in {"Encoding failed", "Data too large"}
    /\ coverIndex # last.cursor

(***************************************************************************)
(* Properties of the adapter's logs, checked under SpecLog                 *)
(***************************************************************************)
\* the bytes of the buffers getSentData() and getReceivedData() return
SentBytes == [i \in DOMAIN adapter.sentData |-> heap[adapter.sentData[i]]]
ReceivedBytes == [i \in DOMAIN adapter.receivedData |-> heap[adapter.receivedData[i]]]

\* the sum of the lengths of the byte sequences of a log
RECURSIVE TotalLength(_)
TotalLength(log) == IF log = <<>> THEN 0 ELSE Len(Head(log)) + TotalLength(Tail(log))

LogStep ==
    /\ last'.op = "log.send" =>
           /\ SentBytes' = Append(SentBytes, last'.before)
           /\ ReceivedBytes' = ReceivedBytes
    /\ last'.op = "log.receive" =>
           /\ ReceivedBytes' = Append(ReceivedBytes, last'.before)
           /\ SentBytes' = SentBytes
    /\ last'.op = "log.clear" => (SentBytes' = <<>> /\ ReceivedBytes' = <<>>)
    /\ last'.op \in {"log.write", "log.getStats"} =>
           (SentBytes' = SentBytes /\ ReceivedBytes' = ReceivedBytes)
    /\ last'.op = "log.getStats" =>
           last'.logStats = [sentCount |-> Len(SentBytes),
                             sentBytes |-> TotalLength(SentBytes),
                             receivedCount |-> Len(ReceivedBytes),
                             receivedBytes |-> TotalLength(ReceivedBytes)]

\* C31: on a connected MemoryAdapter, send appends to the sent log the bytes
\* its buffer holds at the call and receive does the same to the received
\* log, clear empties both logs, a later write of the caller into its
\* buffer changes no logged bytes, and getStats returns the lengths and
\* the byte totals of the two logs.
C31_SentLog == [][LogStep]_vars

\* the statistics of a log whose first entry was sent from a buffer the
\* caller has since overwritten
C31_Witness ==
    /\ last.op = "log.getStats"
    /\ last.logStats.sentCount = 2
    /\ last.logStats.sentBytes = 3
    /\ last.logStats.receivedCount = 1
    /\ SentBytes[1] = <<1, 2>>
    /\ heap[1] = <<255, 2>>

(***************************************************************************)
(* Loopback delivery, checked under SpecLoopback                           *)
(***************************************************************************)
\* C32: when a deferred receive of a loopback adapter runs, every registered
\* data handler is invoked, with the bytes the buffer held when it was
\* sent, and the sent log holds a buffer with those bytes.
C32_LoopbackDelivery ==
    last.op = "loopback.deliver" =>
        /\ last.handled = Len(adapter.dataHandlers)
        /\ last.data = last.before
        /\ \E k \in DOMAIN adapter.sentData :
               heap[adapter.sentData[k]] = last.before

(***************************************************************************)
(* Completion of the normalizer, checked under SpecNormalizer              *)
(***************************************************************************)
\* the step is a complete(), an end() or a feedSSE('data: [DONE]')
CompletionCall ==
    \/ last'.op \in {"normalizer.complete", "normalizer.end"}
    \/ /\ last'.op = "normalizer.feedSSE"
       /\ last'.line = [prefixed |-> TRUE, rest |-> "[DONE]"]

\* the step emitted 'complete'
EmitsComplete == \E i \in DOMAIN last'.events : last'.events[i] = "complete"

CompletionStep ==
    /\ normalizer'.completeEmitted <= 1
    /\ EmitsComplete <=> (CompletionCall /\ ~normalizer.streamEnded)
    /\ EmitsComplete =>
           /\ last'.text = normalizer.buffer
           /\ normalizer'.streamEnded
           /\ normalizer'.completeEmitted = normalizer.completeEmitted + 1
    /\ (normalizer.streamEnded /\ last'.op # "normalizer.reset") =>
           normalizer'.streamEnded
    /\ last'.op = "normalizer.isEnded" =>
           (last'.success <=> normalizer.completeEmitted = 1)
    /\ (last'.op = "normalizer.feedSSE" /\ ~last'.line.prefixed) =>
           (normalizer' = normalizer /\ last'.events = <<>>)

\* C33: without a reset in between, 'complete' is emitted at most once, by
\* the first complete(), end() or feedSSE('data: [DONE]'), with the text
\* accumulated until then; isEnded() is true from then on; a feedSSE line
\* that does not start with 'data: ' changes nothing.
C33_CompletesOnce == [][CompletionStep]_vars

\* a second completion call, on a stream that ended with the text 'ab'
\* accumulated, emits nothing
C33_Witness ==
    /\ last.op \in {"normalizer.complete", "normalizer.end"}
    /\ last.events = <<>>
    /\ normalizer.streamEnded
    /\ normalizer.completeEmitted = 1
    /\ normalizer.buffer = <<"a", "b">>

====
